---- MODULE Spec2Model ----
(***************************************************************************)
(* Render backend of the three.js study repository: the program cache      *)
(* (WebGLPrograms / WebGLProgram and the renderer's getProgram and         *)
(* material disposal), the state tracker (WebGLState), the texture cache   *)
(* (WebGLTextures), the buffer cache (WebGLAttributes), the render lists   *)
(* and render states of render(), the sort of a render list, the viewport  *)
(* and scissor of the renderer, the program selection of a draw, the       *)
(* readiness of programs, context loss, restoration and dispose(), the     *)
(* clear colour over a render call, the pixel readbacks and the binding    *)
(* states (WebGLBindingStates).                                            *)
(*                                                                         *)
(* The components share no state, so each has its own next-state relation  *)
(* and specification (SpecPrograms, SpecState, SpecTextures, SpecSources,  *)
(* SpecImages, SpecAttributes, SpecRender, SpecAbort, SpecCallback,        *)
(* SpecSort, SpecView, SpecDraw, SpecShaders, SpecCompile, SpecResolving,  *)
(* SpecPolling, SpecLife, SpecClear, SpecRead, SpecBinding) over the one   *)
(* set of variables.                                                       *)
(***************************************************************************)
EXTENDS Integers, Sequences, FiniteSets, TLC

(***************************************************************************)
(* Bounds of the model.                                                    *)
(***************************************************************************)
NumMaterials == 3
NumKeys == 2
MaxPrograms == 3

Materials == 1..NumMaterials
Keys == 1..NumKeys
ProgramIds == 0..(MaxPrograms - 1)

NumTextures == 2
NumSources == 2
MaxTextureHandles == 3
\* The number of times the application flags a texture for update.
MaxUpdates == 3
\* The largest byteLength of the data of an image.
MaxImageByteLength == 2
NumAttributes == 1
MaxBuffers == 3
\* The number of times the application flags an attribute for update.
MaxVersion == 2
NumObjects == 2
MaxRenderCalls == 2
NumScenes == 1
MaxSortItems == 3
MaxPixelRatio == 2
MaxExtent == 2
MaxOffset == 1
NumRenderTargets == 1
NumDrawMaterials == 2
NumDrawObjects == 2
MaxMaterialVersion == 1
MaxStages == 4
MaxDrawPrograms == 2
NumCompiledMaterials == 2
NumCompiledPrograms == 2
\* The number of status queries made for a program.
MaxQueries == 3
\* The number of times the driver restores the context.
MaxRestorations == 1
\* The number of render calls that ended in an error.
MaxAborted == 1

\* The clear colours besides 0x000000, the last of them 0xffffff.
MaxClearColor == 3

\* The render calls of a chain of nested calls.
MaxNesting == 3

\* The alphas 1 and 0.5, in halves.
Opaque == 2

HalfAlpha == 1

\* The render targets of the readbacks: one of each kind.
NumReadTargets == 3

\* The last face of a cube render target.
MaxCubeFace == 1

\* The asynchronous readbacks waiting for their fence.
MaxPending == 2

\* The geometries and the programs of the binding states.
NumBoundGeometries == 2

NumBoundPrograms == 2

\* The vertex array objects the driver gives.
MaxVertexArrays == 4

Textures == 1..NumTextures
Sources == 1..NumSources
TextureHandles == 1..MaxTextureHandles
ImageByteLengths == 1..MaxImageByteLength
Attributes == 1..NumAttributes
BufferIds == 1..MaxBuffers

\* JavaScript's undefined / null for a reference held in a variable.
Undefined == -1

VARIABLES
    \* ---- program cache (WebGLPrograms, WebGLProgram, WebGLRenderer) ----
    programs,           \* WebGLPrograms: the programs array (program ids)
    programIdCount,     \* WebGLProgram.js: let programIdCount
    programObjs,        \* per WebGLProgram instance: cacheKey, usedTimes, program
    glDeleteProgram,    \* driver: number of gl.deleteProgram calls per program
    materialProperties  \* properties.get(material).programs: key -> program

programVars == <<programs, programIdCount, programObjs, glDeleteProgram,
                 materialProperties>>

VARIABLES
    \* ---- state tracker (WebGLState) ----
    family,             \* the group of setters this behaviour exercises
    st,                 \* WebGLState: the snapshot (enabledCapabilities, current*)
    gl,                 \* the driver's state
    lineWidthAvailable, \* WebGLState: lineWidthAvailable, from gl.VERSION
    \* ---- the last operation ----
    issued,             \* the gl functions the last operation called
    threw,              \* the error the last operation threw, or "none"
    \* ---- texture cache (WebGLTextures) ----
    textures,           \* the Texture objects: source, wrapS, magFilter, version
    sourceVersions,     \* Source.version of each source
    imageByteLengths,   \* byteLength of the data of each source's image
    textureProperties,  \* properties.get(texture)
    sourceProperties,   \* properties.get(source).__version
    _sources,           \* WebGLTextures: _sources, source -> key -> {texture, usedTimes}
    glTextureObjects,   \* driver: the texture objects
    textureCount,       \* driver: number of gl.createTexture calls
    memoryTextures,     \* info.memory.textures
    \* ---- buffer cache (WebGLAttributes) ----
    attributes,         \* the attribute objects: array, version
    buffers,            \* WebGLAttributes: buffers, attribute -> cached record
    glBufferObjects,    \* driver: the buffer objects
    bufferCount         \* driver: number of gl.createBuffer calls

VARIABLES
    \* ---- render lists and render states (WebGLRenderLists, WebGLRenderStates) ----
    lists,              \* WebGLRenderLists: lists, scene -> array of WebGLRenderList
    renderStates,       \* WebGLRenderStates: renderStates, scene -> array of states
    renderListStack,    \* WebGLRenderer: renderListStack
    renderStateStack,   \* WebGLRenderer: renderStateStack
    currentRenderList,  \* WebGLRenderer: currentRenderList
    currentRenderState, \* WebGLRenderer: currentRenderState
    renderCalls,        \* the render calls in flight, outermost first
    \* ---- Array.prototype.sort with the comparators of WebGLRenderList ----
    sortInput,          \* the bucket before sort()
    sortOutput,         \* the bucket after sort()
    sortKind            \* the comparator used, or "none" before sort()

renderVars == <<lists, renderStates, renderListStack, renderStateStack,
                currentRenderList, currentRenderState, renderCalls>>
sortVars == <<sortInput, sortOutput, sortKind>>

VARIABLES
    renderer      \* the renderer's viewport, scissor, render target and tracker

viewVars == <<renderer>>

VARIABLES
    drawing       \* materials, shader cache, program cache and material properties of the draws

drawVars == <<drawing>>

VARIABLES
    compiling     \* readiness of the programs and the compileAsync call in flight

compileVars == <<compiling>>

VARIABLES
    life          \* the context, the loss flag, the caches and the settings of the renderer

lifeVars == <<life>>

VARIABLES
    clearing      \* the clear colour and alpha of the renderer and those a transmission pass saved

clearVars == <<clearing>>

VARIABLES
    reading       \* the render target, the framebuffer bound and the readbacks pending

readVars == <<reading>>

VARIABLES
    binding       \* the binding states, the vertex array objects and the current state

bindVars == <<binding>>

\* The components that follow context loss.
lastVars == <<clearVars, readVars, bindVars>>

\* The components that follow the draws.
newerVars == <<compileVars, lifeVars, lastVars>>

\* The components that follow the caches.
laterVars == <<renderVars, sortVars, viewVars, drawVars, newerVars>>

stateVars == <<family, st, gl, lineWidthAvailable>>
callVars == <<issued, threw>>
textureCacheVars == <<textureProperties, sourceProperties, _sources, glTextureObjects,
                      textureCount, memoryTextures>>
textureVars == <<textures, sourceVersions, imageByteLengths, textureCacheVars>>
attributeCacheVars == <<buffers, glBufferObjects, bufferCount>>
attributeVars == <<attributes, attributeCacheVars>>

\* What an action of one component leaves alone.
notProgramVars == <<stateVars, callVars, textureVars, attributeVars, laterVars>>
notStateVars == <<programVars, textureVars, attributeVars, laterVars>>
notRenderVars == <<programVars, stateVars, callVars, textureVars, attributeVars, sortVars, viewVars, drawVars,
    newerVars>>
notSortVars == <<programVars, stateVars, callVars, textureVars, attributeVars, renderVars, viewVars, drawVars,
    newerVars>>
notViewVars == <<programVars, stateVars, callVars, textureVars, attributeVars, renderVars, sortVars, drawVars,
    newerVars>>
notCompileVars == <<programVars, stateVars, callVars, textureVars, attributeVars, renderVars, sortVars, viewVars,
    drawVars, lifeVars, lastVars>>
notLifeVars == <<programVars, stateVars, callVars, textureVars, attributeVars, renderVars, sortVars, viewVars,
    drawVars, compileVars, lastVars>>
olderVars == <<programVars, stateVars, callVars, textureVars, attributeVars, renderVars, sortVars, viewVars,
    drawVars, compileVars, lifeVars>>
notClearVars == <<olderVars, readVars, bindVars>>
notReadVars == <<olderVars, clearVars, bindVars>>
notBindVars == <<olderVars, clearVars, readVars>>
notDrawVars == <<programVars, stateVars, callVars, textureVars, attributeVars, renderVars, sortVars, viewVars,
    newerVars>>

vars == <<programVars, stateVars, callVars, textureVars, attributeVars, laterVars>>

----------------------------------------------------------------------------
(***************************************************************************)
(* Program cache.                                                          *)
(***************************************************************************)

\* Array.prototype.indexOf on the programs array (1-based here, 0 = absent).
IndexOf(seq, x) ==
    IF \E i \in 1..Len(seq) : seq[i] = x
    THEN CHOOSE i \in 1..Len(seq) : seq[i] = x /\ \A j \in 1..(i - 1) : seq[j] # x
    ELSE 0

\* The search loop leaving after its first iteration whether or not it matched.
FindProgramFirstOnly(progs, objs, cacheKey) ==
    IF Len(progs) > 0 /\ objs[progs[1]].cacheKey = cacheKey
    THEN progs[1]
    ELSE Undefined

\* The first program of the array whose cacheKey is the requested one
\* (the loop of acquireProgram, which breaks on the first match).
FindProgram(progs, objs, cacheKey) ==
    IF \E i \in 1..Len(progs) : objs[progs[i]].cacheKey = cacheKey
    THEN progs[CHOOSE i \in 1..Len(progs) :
                  /\ objs[progs[i]].cacheKey = cacheKey
                  /\ \A j \in 1..(i - 1) : objs[progs[j]].cacheKey # cacheKey]
    ELSE Undefined

\* new WebGLProgram(...): the fields the cache reads.
NewProgramObj(cacheKey) ==
    [cacheKey |-> cacheKey, usedTimes |-> 1, program |-> "linked"]

\* A cache hit that forgets ++program.usedTimes.
HitUsedTimesKept(n) == n

\* The usedTimes a cache hit leaves on the program.
HitUsedTimes(n) == n + 1

\* acquireProgram(parameters, cacheKey): the state it leaves and the program
\* it returns, as a record [programs, objs, idCount, program].
AcquireProgram(progs, objs, idCount, cacheKey) ==
    LET found == FindProgram(progs, objs, cacheKey) IN
    IF found # Undefined
    THEN [programs |-> progs,
          objs     |-> [objs EXCEPT ![found].usedTimes = HitUsedTimes(@)],
          idCount  |-> idCount,
          program  |-> found]
    ELSE [programs |-> Append(progs, idCount),
          objs     |-> [objs EXCEPT ![idCount] = NewProgramObj(cacheKey)],
          idCount  |-> idCount + 1,
          program  |-> idCount]

\* programs[i] = programs[programs.length - 1]; programs.pop()
SwapRemove(seq, i) ==
    LET moved == [seq EXCEPT ![i] = seq[Len(seq)]] IN
    SubSeq(moved, 1, Len(seq) - 1)

\* The release test written with the post-decrement: program.usedTimes-- === 1
\* is true one release early.
ReleaseHitsZeroEarly(n) == n = 1

\* The test of releaseProgram that decides whether the program is destroyed.
ReleaseHitsZero(n) == n = 0

\* releaseProgram(program): [programs, objs, deleted]; deleted counts the
\* gl.deleteProgram calls of WebGLProgram.destroy.
ReleaseProgram(progs, objs, deleted, p) ==
    LET n == objs[p].usedTimes - 1
        dec == [objs EXCEPT ![p].usedTimes = n] IN
    IF ReleaseHitsZero(n)
    THEN [programs |-> SwapRemove(progs, IndexOf(progs, p)),
          objs     |-> [dec EXCEPT ![p].program = "undefined"],
          deleted  |-> [deleted EXCEPT ![p] = @ + 1]]
    ELSE [programs |-> progs, objs |-> dec, deleted |-> deleted]

\* Releasing one program of the material only, not every variant of its map.
ReleaseFirstOnly(progs, objs, deleted, held) ==
    IF held = <<>>
    THEN [programs |-> progs, objs |-> objs, deleted |-> deleted]
    ELSE ReleaseProgram(progs, objs, deleted, Head(held))

\* programs.forEach(program => programCache.releaseProgram(program)) over the
\* programs the material's map holds, in the order held.
RECURSIVE ReleaseAll(_, _, _, _)
ReleaseAll(progs, objs, deleted, held) ==
    IF held = <<>>
    THEN [programs |-> progs, objs |-> objs, deleted |-> deleted]
    ELSE LET r == ReleaseProgram(progs, objs, deleted, Head(held)) IN
         ReleaseAll(r.programs, r.objs, r.deleted, Tail(held))

\* materialProperties.programs of a material the renderer holds no programs
\* for (programs === undefined): the map is created and filled in one call of
\* getProgram, so a map that exists is never empty.
NoPrograms == [k \in Keys |-> Undefined]

\* The keys of a material's programs map.
HeldKeys(mp) == {k \in Keys : mp[k] # Undefined}

\* The iteration orders of Map.forEach this model allows: the map iterates in
\* insertion order, which the model does not record, so every order of the
\* held keys is taken.
Orders(S) ==
    {o \in [1..Cardinality(S) -> S] : \A i, j \in 1..Cardinality(S) : o[i] = o[j] => i = j}

\* getProgram(material, scene, object) of the renderer; programCacheKey is
\* what getProgramCacheKey derives from the material's current parameters.
\* A hit in the material's own map changes nothing in the cache.
getProgram(material, programCacheKey) ==
    LET mp == materialProperties[material]
        program == mp[programCacheKey] IN
    /\ UNCHANGED notProgramVars
    /\ IF program # Undefined
       THEN UNCHANGED programVars
       ELSE
         /\ (FindProgram(programs, programObjs, programCacheKey) = Undefined
                => programIdCount < MaxPrograms)
         /\ LET r == AcquireProgram(programs, programObjs, programIdCount,
                                    programCacheKey) IN
            /\ programs' = r.programs
            /\ programObjs' = r.objs
            /\ programIdCount' = r.idCount
            /\ materialProperties' =
                 [materialProperties EXCEPT ![material][programCacheKey] = r.program]
         /\ UNCHANGED glDeleteProgram

\* onMaterialDispose -> deallocateMaterial: releaseMaterialProgramReferences
\* and properties.remove(material).
onMaterialDispose(material) ==
    LET mp == materialProperties[material] IN
    \E o \in Orders(HeldKeys(mp)) :
        LET held == [i \in 1..Cardinality(HeldKeys(mp)) |-> mp[o[i]]]
            r == ReleaseAll(programs, programObjs, glDeleteProgram, held) IN
        /\ programs' = r.programs
        /\ programObjs' = r.objs
        /\ glDeleteProgram' = r.deleted
        /\ materialProperties' = [materialProperties EXCEPT ![material] = NoPrograms]
        /\ UNCHANGED programIdCount
        /\ UNCHANGED notProgramVars

\* A program instance that was never constructed.
NoProgramObj == [cacheKey |-> Undefined, usedTimes |-> 0, program |-> "none"]

InitPrograms ==
    /\ programs = <<>>
    /\ programIdCount = 0
    /\ programObjs = [p \in ProgramIds |-> NoProgramObj]
    /\ glDeleteProgram = [p \in ProgramIds |-> 0]
    /\ materialProperties = [m \in Materials |-> NoPrograms]

NextPrograms ==
    \/ \E m \in Materials, k \in Keys : getProgram(m, k)
    \/ \E m \in Materials : onMaterialDispose(m)

----------------------------------------------------------------------------
(***************************************************************************)
(* State tracker (WebGLState) and the driver state (gl) it mirrors.        *)
(*                                                                         *)
(* A setter is an operator on s = [m, g, log]: m the tracker's snapshot,   *)
(* g the driver's state, log the gl functions called so far in the         *)
(* invocation. The tracker's groups of parameters share no state, so a     *)
(* behaviour of SpecState exercises the setters of one group (family),     *)
(* and reset(), which touches them all.                                    *)
(***************************************************************************)

\* JavaScript null for a handle (the default framebuffer, no program).
NullHandle == 0

\* The framebuffer and program handles the callers pass.
NumHandles == 1
Handles == 1..NumHandles

\* gl.TEXTURE0 + i for the texture units i the callers use.
NumUnits == 2
Units == 0..(NumUnits - 1)

\* gl.MAX_COMBINED_TEXTURE_IMAGE_UNITS of the modelled driver.
maxTextures == NumUnits

Caps == {"BLEND", "CULL_FACE", "DEPTH_TEST", "STENCIL_TEST",
         "POLYGON_OFFSET_FILL", "SCISSOR_TEST"}

Families == {"depth", "stencil", "color", "clear", "blend", "cull",
             "line", "program", "framebuffer", "texture"}

\* gl.canvas.width x gl.canvas.height, as (x, y, z, w) of gl.VIEWPORT.
Canvas == <<0, 0, 2, 2>>

\* The driver's state of a fresh context (the initial values of WebGL 2).
DriverDefault ==
    [caps |-> [c \in Caps |-> FALSE],
     colorMask |-> "true", clearColor |-> <<0, 0, 0, 0>>,
     depthMask |-> "true", depthFunc |-> "LESS", clearDepth |-> 1,
     stencilMask |-> 255, stencilFunc |-> <<"ALWAYS", 0, 255>>,
     stencilOp |-> <<"KEEP", "KEEP", "KEEP">>, clearStencil |-> 0,
     blendEquation |-> <<"FUNC_ADD", "FUNC_ADD">>,
     blendFunc |-> <<"ONE", "ZERO", "ONE", "ZERO">>,
     blendColor |-> <<0, 0, 0, 0>>,
     frontFace |-> "CCW", cullFace |-> "BACK",
     lineWidth |-> 1, polygonOffset |-> <<0, 0>>,
     program |-> NullHandle,
     drawFramebuffer |-> NullHandle, readFramebuffer |-> NullHandle,
     activeTexture |-> 0,
     textures |-> [u \in Units |-> [t \in {"TEXTURE_2D", "TEXTURE_CUBE_MAP"} |-> NullHandle]],
     scissor |-> Canvas, viewport |-> Canvas]

\* The tracker's variables as their declarations initialise them.
MirrorDeclared ==
    [caps |-> [c \in Caps |-> "undefined"],
     colorLocked |-> FALSE, colorMask |-> "null", colorClear |-> <<0, 0, 0, 0>>,
     depthLocked |-> FALSE, depthMask |-> "null", depthFunc |-> "null",
     depthClear |-> Undefined,
     stencilLocked |-> FALSE, stencilMask |-> Undefined,
     stencilFunc |-> <<"null", Undefined, Undefined>>,
     stencilOp |-> <<"null", "null", "null">>, stencilClear |-> Undefined,
     blendingEnabled |-> FALSE, blending |-> "null",
     blendEquation |-> "null", blendSrc |-> "null", blendDst |-> "null",
     blendEquationAlpha |-> "null", blendSrcAlpha |-> "null",
     blendDstAlpha |-> "null", blendColor |-> <<0, 0, 0>>, blendAlpha |-> 0,
     premultipliedAlpha |-> "false",
     flipSided |-> "null", cullFace |-> "null",
     lineWidth |-> Undefined,
     polygonOffsetFactor |-> Undefined, polygonOffsetUnits |-> Undefined,
     program |-> NullHandle,
     boundFramebuffers |-> [t \in {"FRAMEBUFFER", "DRAW_FRAMEBUFFER", "READ_FRAMEBUFFER"} |-> Undefined],
     textureSlot |-> Undefined,
     boundTextures |-> [u \in Units |-> [type |-> "undefined", texture |-> Undefined]],
     scissor |-> Canvas, viewport |-> Canvas]

\* One gl call: the driver state it leaves and its entry in the log.
Issue(s, fn, g2) == [m |-> s.m, g |-> g2, log |-> Append(s.log, fn)]

\* The snapshot after a setter recorded its value.
Record(s, m2) == [m |-> m2, g |-> s.g, log |-> s.log]

\* enable(id) without the assignment enabledCapabilities[id] = true.
enableForgetful(s, id) ==
    IF s.m.caps[id] # "true"
    THEN Issue(s, "enable", [s.g EXCEPT !.caps[id] = TRUE])
    ELSE s

\* enable(id)
enable(s, id) ==
    IF s.m.caps[id] # "true"
    THEN Record(Issue(s, "enable", [s.g EXCEPT !.caps[id] = TRUE]),
                [s.m EXCEPT !.caps[id] = "true"])
    ELSE s

\* disable(id)
disable(s, id) ==
    IF s.m.caps[id] # "false"
    THEN Record(Issue(s, "disable", [s.g EXCEPT !.caps[id] = FALSE]),
                [s.m EXCEPT !.caps[id] = "false"])
    ELSE s

\* ColorBuffer.setMask(colorMask)
colorBuffer_setMask(s, colorMask) ==
    IF s.m.colorMask # colorMask /\ ~s.m.colorLocked
    THEN Record(Issue(s, "colorMask", [s.g EXCEPT !.colorMask = colorMask]),
                [s.m EXCEPT !.colorMask = colorMask])
    ELSE s

\* ColorBuffer.setLocked(lock)
colorBuffer_setLocked(s, lock) == Record(s, [s.m EXCEPT !.colorLocked = lock])

\* ColorBuffer.setClear(r, g, b, a, premultipliedAlpha)
colorBuffer_setClear(s, r, g, b, a, premultipliedAlpha) ==
    LET color == IF premultipliedAlpha THEN <<r * a, g * a, b * a, a>>
                 ELSE <<r, g, b, a>> IN
    IF s.m.colorClear # color
    THEN Record(Issue(s, "clearColor", [s.g EXCEPT !.clearColor = color]),
                [s.m EXCEPT !.colorClear = color])
    ELSE s

\* DepthBuffer.setTest(depthTest)
depthBuffer_setTest(s, depthTest) ==
    IF depthTest THEN enable(s, "DEPTH_TEST") ELSE disable(s, "DEPTH_TEST")

\* DepthBuffer.setMask without the test of the lock.
depthBuffer_setMaskUnlocked(s, depthMask) ==
    IF s.m.depthMask # depthMask
    THEN Record(Issue(s, "depthMask", [s.g EXCEPT !.depthMask = depthMask]),
                [s.m EXCEPT !.depthMask = depthMask])
    ELSE s

\* DepthBuffer.setMask(depthMask)
depthBuffer_setMask(s, depthMask) ==
    IF s.m.depthMask # depthMask /\ ~s.m.depthLocked
    THEN Record(Issue(s, "depthMask", [s.g EXCEPT !.depthMask = depthMask]),
                [s.m EXCEPT !.depthMask = depthMask])
    ELSE s

\* The switch of DepthBuffer.setFunc: the gl constant passed to gl.depthFunc.
DepthFuncToGL(depthFunc) ==
    CASE depthFunc = "NeverDepth" -> "NEVER"
      [] depthFunc = "AlwaysDepth" -> "ALWAYS"
      [] OTHER -> "LEQUAL"

\* DepthBuffer.setFunc(depthFunc)
depthBuffer_setFunc(s, depthFunc) ==
    IF s.m.depthFunc # depthFunc
    THEN Record(Issue(s, "depthFunc", [s.g EXCEPT !.depthFunc = DepthFuncToGL(depthFunc)]),
                [s.m EXCEPT !.depthFunc = depthFunc])
    ELSE s

\* DepthBuffer.setLocked(lock)
depthBuffer_setLocked(s, lock) == Record(s, [s.m EXCEPT !.depthLocked = lock])

\* DepthBuffer.setClear(depth)
depthBuffer_setClear(s, depth) ==
    IF s.m.depthClear # depth
    THEN Record(Issue(s, "clearDepth", [s.g EXCEPT !.clearDepth = depth]),
                [s.m EXCEPT !.depthClear = depth])
    ELSE s

\* StencilBuffer.setTest(stencilTest)
stencilBuffer_setTest(s, stencilTest) ==
    IF ~s.m.stencilLocked
    THEN IF stencilTest THEN enable(s, "STENCIL_TEST") ELSE disable(s, "STENCIL_TEST")
    ELSE s

\* StencilBuffer.setMask(stencilMask)
stencilBuffer_setMask(s, stencilMask) ==
    IF s.m.stencilMask # stencilMask /\ ~s.m.stencilLocked
    THEN Record(Issue(s, "stencilMask", [s.g EXCEPT !.stencilMask = stencilMask]),
                [s.m EXCEPT !.stencilMask = stencilMask])
    ELSE s

\* StencilBuffer.setFunc(stencilFunc, stencilRef, stencilMask); the material's
\* stencil function constants are the gl constants themselves.
stencilBuffer_setFunc(s, stencilFunc, stencilRef, stencilMask) ==
    IF s.m.stencilFunc # <<stencilFunc, stencilRef, stencilMask>>
    THEN Record(Issue(s, "stencilFunc",
                      [s.g EXCEPT !.stencilFunc = <<stencilFunc, stencilRef, stencilMask>>]),
                [s.m EXCEPT !.stencilFunc = <<stencilFunc, stencilRef, stencilMask>>])
    ELSE s

\* StencilBuffer.setOp(stencilFail, stencilZFail, stencilZPass)
stencilBuffer_setOp(s, stencilFail, stencilZFail, stencilZPass) ==
    IF s.m.stencilOp # <<stencilFail, stencilZFail, stencilZPass>>
    THEN Record(Issue(s, "stencilOp",
                      [s.g EXCEPT !.stencilOp = <<stencilFail, stencilZFail, stencilZPass>>]),
                [s.m EXCEPT !.stencilOp = <<stencilFail, stencilZFail, stencilZPass>>])
    ELSE s

\* StencilBuffer.setLocked(lock)
stencilBuffer_setLocked(s, lock) == Record(s, [s.m EXCEPT !.stencilLocked = lock])

\* StencilBuffer.setClear(stencil)
stencilBuffer_setClear(s, stencil) ==
    IF s.m.stencilClear # stencil
    THEN Record(Issue(s, "clearStencil", [s.g EXCEPT !.clearStencil = stencil]),
                [s.m EXCEPT !.stencilClear = stencil])
    ELSE s


\* gl.bindFramebuffer(target, framebuffer) of the driver: FRAMEBUFFER binds
\* both the draw and the read framebuffer.
GLBindFramebuffer(g, target, framebuffer) ==
    CASE target = "FRAMEBUFFER" ->
            [g EXCEPT !.drawFramebuffer = framebuffer, !.readFramebuffer = framebuffer]
      [] target = "DRAW_FRAMEBUFFER" -> [g EXCEPT !.drawFramebuffer = framebuffer]
      [] OTHER -> [g EXCEPT !.readFramebuffer = framebuffer]

\* The targets whose recorded binding bindFramebuffer(target, ...) updates.
FramebufferAliases(target) ==
    CASE target = "DRAW_FRAMEBUFFER" -> {"DRAW_FRAMEBUFFER", "FRAMEBUFFER"}
      [] target = "FRAMEBUFFER" -> {"FRAMEBUFFER", "DRAW_FRAMEBUFFER"}
      [] OTHER -> {target}

\* bindFramebuffer(target, framebuffer)
bindFramebuffer(s, target, framebuffer) ==
    IF s.m.boundFramebuffers[target] # framebuffer
    THEN Record(Issue(s, "bindFramebuffer", GLBindFramebuffer(s.g, target, framebuffer)),
                [s.m EXCEPT !.boundFramebuffers =
                    [t \in DOMAIN @ |-> IF t \in FramebufferAliases(target)
                                        THEN framebuffer ELSE @[t]]])
    ELSE s

\* useProgram(program)
useProgram(s, program) ==
    IF s.m.program # program
    THEN Record(Issue(s, "useProgram", [s.g EXCEPT !.program = program]),
                [s.m EXCEPT !.program = program])
    ELSE s

\* equationToGL
equationToGL(e) ==
    CASE e = "AddEquation" -> "FUNC_ADD"
      [] e = "SubtractEquation" -> "FUNC_SUBTRACT"
      [] e = "ReverseSubtractEquation" -> "FUNC_REVERSE_SUBTRACT"
      [] e = "MinEquation" -> "MIN"
      [] OTHER -> "MAX"

\* factorToGL, for the factors the callers pass.
factorToGL(f) ==
    CASE f = "ZeroFactor" -> "ZERO"
      [] f = "OneFactor" -> "ONE"
      [] f = "SrcAlphaFactor" -> "SRC_ALPHA"
      [] f = "OneMinusSrcAlphaFactor" -> "ONE_MINUS_SRC_ALPHA"
      [] f = "SrcColorFactor" -> "SRC_COLOR"
      [] OTHER -> "ONE_MINUS_SRC_COLOR"

\* The gl.blendFunc / gl.blendFuncSeparate call of the two switch statements
\* of setBlending: <<function, src, dst, srcAlpha, dstAlpha>>.
BlendFuncOf(blending, premultipliedAlpha) ==
    IF premultipliedAlpha = "true"
    THEN CASE blending = "NormalBlending" ->
                <<"blendFuncSeparate", "ONE", "ONE_MINUS_SRC_ALPHA", "ONE", "ONE_MINUS_SRC_ALPHA">>
           [] blending = "AdditiveBlending" -> <<"blendFunc", "ONE", "ONE", "ONE", "ONE">>
           [] blending = "SubtractiveBlending" ->
                <<"blendFuncSeparate", "ZERO", "ONE_MINUS_SRC_COLOR", "ZERO", "ONE">>
           [] OTHER -> <<"blendFuncSeparate", "ZERO", "SRC_COLOR", "ZERO", "SRC_ALPHA">>
    ELSE CASE blending = "NormalBlending" ->
                <<"blendFuncSeparate", "SRC_ALPHA", "ONE_MINUS_SRC_ALPHA", "ONE", "ONE_MINUS_SRC_ALPHA">>
           [] blending = "AdditiveBlending" -> <<"blendFunc", "SRC_ALPHA", "ONE", "SRC_ALPHA", "ONE">>
           [] blending = "SubtractiveBlending" ->
                <<"blendFuncSeparate", "ZERO", "ONE_MINUS_SRC_COLOR", "ZERO", "ONE">>
           [] OTHER -> <<"blendFunc", "ZERO", "SRC_COLOR", "ZERO", "SRC_COLOR">>

\* a || b of JavaScript for an optional enum argument.
OrElse(a, b) == IF a = "null" THEN b ELSE a

\* setBlending, blending === NoBlending
setBlendingNone(s) ==
    IF s.m.blendingEnabled
    THEN Record(disable(s, "BLEND"), [disable(s, "BLEND").m EXCEPT !.blendingEnabled = FALSE])
    ELSE s

\* setBlending: the enable(gl.BLEND) of every other blending mode
setBlendingEnable(s) ==
    IF ~s.m.blendingEnabled
    THEN Record(enable(s, "BLEND"), [enable(s, "BLEND").m EXCEPT !.blendingEnabled = TRUE])
    ELSE s

\* setBlending, blending !== CustomBlending
setBlendingPreset(s, b) ==
    IF b.blending # s.m.blending \/ b.premultipliedAlpha # s.m.premultipliedAlpha
    THEN LET s1 == IF s.m.blendEquation # "AddEquation" \/ s.m.blendEquationAlpha # "AddEquation"
                   THEN Record(Issue(s, "blendEquation",
                                     [s.g EXCEPT !.blendEquation = <<"FUNC_ADD", "FUNC_ADD">>]),
                               [s.m EXCEPT !.blendEquation = "AddEquation",
                                           !.blendEquationAlpha = "AddEquation"])
                   ELSE s
             f == BlendFuncOf(b.blending, b.premultipliedAlpha)
             s2 == Issue(s1, f[1], [s1.g EXCEPT !.blendFunc = <<f[2], f[3], f[4], f[5]>>])
         IN Record(s2, [s2.m EXCEPT !.blendSrc = "null", !.blendDst = "null",
                                    !.blendSrcAlpha = "null", !.blendDstAlpha = "null",
                                    !.blendColor = <<0, 0, 0>>, !.blendAlpha = 0,
                                    !.blending = b.blending,
                                    !.premultipliedAlpha = b.premultipliedAlpha])
    ELSE s

\* setBlending, custom blending
setBlendingCustom(s, b) ==
    LET blendEquationAlpha == OrElse(b.blendEquationAlpha, b.blendEquation)
        blendSrcAlpha == OrElse(b.blendSrcAlpha, b.blendSrc)
        blendDstAlpha == OrElse(b.blendDstAlpha, b.blendDst)
        s1 == IF b.blendEquation # s.m.blendEquation \/ blendEquationAlpha # s.m.blendEquationAlpha
              THEN Record(Issue(s, "blendEquationSeparate",
                                [s.g EXCEPT !.blendEquation =
                                    <<equationToGL(b.blendEquation), equationToGL(blendEquationAlpha)>>]),
                          [s.m EXCEPT !.blendEquation = b.blendEquation,
                                      !.blendEquationAlpha = blendEquationAlpha])
              ELSE s
        s2 == IF \/ b.blendSrc # s1.m.blendSrc \/ b.blendDst # s1.m.blendDst
                 \/ blendSrcAlpha # s1.m.blendSrcAlpha \/ blendDstAlpha # s1.m.blendDstAlpha
              THEN Record(Issue(s1, "blendFuncSeparate",
                                [s1.g EXCEPT !.blendFunc =
                                    <<factorToGL(b.blendSrc), factorToGL(b.blendDst),
                                      factorToGL(blendSrcAlpha), factorToGL(blendDstAlpha)>>]),
                          [s1.m EXCEPT !.blendSrc = b.blendSrc, !.blendDst = b.blendDst,
                                       !.blendSrcAlpha = blendSrcAlpha,
                                       !.blendDstAlpha = blendDstAlpha])
              ELSE s1
        s3 == IF b.blendColor # s2.m.blendColor \/ b.blendAlpha # s2.m.blendAlpha
              THEN Record(Issue(s2, "blendColor",
                                [s2.g EXCEPT !.blendColor =
                                    <<b.blendColor[1], b.blendColor[2], b.blendColor[3], b.blendAlpha>>]),
                          [s2.m EXCEPT !.blendColor = b.blendColor, !.blendAlpha = b.blendAlpha])
              ELSE s2
    IN Record(s3, [s3.m EXCEPT !.blending = b.blending, !.premultipliedAlpha = "false"])

\* setBlending(blending, blendEquation, blendSrc, blendDst, blendEquationAlpha,
\*             blendSrcAlpha, blendDstAlpha, blendColor, blendAlpha, premultipliedAlpha)
setBlending(s, b) ==
    IF b.blending = "NoBlending" THEN setBlendingNone(s)
    ELSE IF b.blending # "CustomBlending" THEN setBlendingPreset(setBlendingEnable(s), b)
    ELSE setBlendingCustom(setBlendingEnable(s), b)

\* setFlipSided(flipSided)
setFlipSided(s, flipSided) ==
    IF s.m.flipSided # flipSided
    THEN Record(Issue(s, "frontFace",
                      [s.g EXCEPT !.frontFace = IF flipSided = "true" THEN "CW" ELSE "CCW"]),
                [s.m EXCEPT !.flipSided = flipSided])
    ELSE s

\* The gl.cullFace argument setCullFace chooses.
CullFaceToGL(cullFace) ==
    CASE cullFace = "CullFaceBack" -> "BACK"
      [] cullFace = "CullFaceFront" -> "FRONT"
      [] OTHER -> "FRONT_AND_BACK"

\* setCullFace(cullFace)
setCullFace(s, cullFace) ==
    LET s1 == IF cullFace # "CullFaceNone"
              THEN LET e == enable(s, "CULL_FACE") IN
                   IF cullFace # s.m.cullFace
                   THEN Issue(e, "cullFace", [e.g EXCEPT !.cullFace = CullFaceToGL(cullFace)])
                   ELSE e
              ELSE disable(s, "CULL_FACE")
    IN Record(s1, [s1.m EXCEPT !.cullFace = cullFace])

\* setLineWidth(width); available: lineWidthAvailable of the constructor
setLineWidth(s, width, available) ==
    IF width # s.m.lineWidth
    THEN Record(IF available THEN Issue(s, "lineWidth", [s.g EXCEPT !.lineWidth = width]) ELSE s,
                [s.m EXCEPT !.lineWidth = width])
    ELSE s

\* setPolygonOffset(polygonOffset, factor, units)
setPolygonOffset(s, polygonOffset, factor, units) ==
    IF polygonOffset
    THEN LET e == enable(s, "POLYGON_OFFSET_FILL") IN
         IF e.m.polygonOffsetFactor # factor \/ e.m.polygonOffsetUnits # units
         THEN Record(Issue(e, "polygonOffset", [e.g EXCEPT !.polygonOffset = <<factor, units>>]),
                     [e.m EXCEPT !.polygonOffsetFactor = factor, !.polygonOffsetUnits = units])
         ELSE e
    ELSE disable(s, "POLYGON_OFFSET_FILL")

\* setScissorTest(scissorTest)
setScissorTest(s, scissorTest) ==
    IF scissorTest THEN enable(s, "SCISSOR_TEST") ELSE disable(s, "SCISSOR_TEST")

\* webglSlot defaulting to gl.TEXTURE0 + maxTextures - 1
LastUnit == maxTextures - 1

\* activeTexture(webglSlot)
activeTexture(s, webglSlot) ==
    LET slot == IF webglSlot = Undefined THEN LastUnit ELSE webglSlot IN
    IF s.m.textureSlot # slot
    THEN Record(Issue(s, "activeTexture", [s.g EXCEPT !.activeTexture = slot]),
                [s.m EXCEPT !.textureSlot = slot])
    ELSE s

\* emptyTextures[webglType], the 1x1 texture bound in place of null.
EmptyTexture == -2

\* bindTexture(webglType, webglTexture, webglSlot)
bindTexture(s, webglType, webglTexture, webglSlot) ==
    LET slot == IF webglSlot = Undefined
                THEN IF s.m.textureSlot = Undefined THEN LastUnit ELSE s.m.textureSlot
                ELSE webglSlot
        boundTexture == s.m.boundTextures[slot]
    IN IF boundTexture.type # webglType \/ boundTexture.texture # webglTexture
       THEN LET s1 == IF s.m.textureSlot # slot
                      THEN Record(Issue(s, "activeTexture", [s.g EXCEPT !.activeTexture = slot]),
                                  [s.m EXCEPT !.textureSlot = slot])
                      ELSE s
                bound == IF webglTexture \in {NullHandle, Undefined} THEN EmptyTexture
                         ELSE webglTexture
            IN Record(Issue(s1, "bindTexture",
                            [s1.g EXCEPT !.textures[s1.g.activeTexture][webglType] = bound]),
                      [s1.m EXCEPT !.boundTextures[slot] =
                                       [type |-> webglType, texture |-> webglTexture]])
       ELSE s

\* unbindTexture()
unbindTexture(s) ==
    IF s.m.textureSlot # Undefined /\ s.m.boundTextures[s.m.textureSlot].type # "undefined"
    THEN LET t == s.m.boundTextures[s.m.textureSlot].type IN
         Record(Issue(s, "bindTexture",
                      [s.g EXCEPT !.textures[s.g.activeTexture][t] = NullHandle]),
                [s.m EXCEPT !.boundTextures[s.m.textureSlot] =
                                [type |-> "undefined", texture |-> Undefined]])
    ELSE s

\* scissor(scissor)
scissor(s, v) ==
    IF s.m.scissor # v
    THEN Record(Issue(s, "scissor", [s.g EXCEPT !.scissor = v]), [s.m EXCEPT !.scissor = v])
    ELSE s

\* viewport(viewport)
viewport(s, v) ==
    IF s.m.viewport # v
    THEN Record(Issue(s, "viewport", [s.g EXCEPT !.viewport = v]), [s.m EXCEPT !.viewport = v])
    ELSE s

\* The gl calls of reset(), in order.
ResetCalls ==
    <<"disable", "disable", "disable", "disable", "disable", "disable", "disable",
      "blendEquation", "blendFunc", "blendFuncSeparate", "blendColor",
      "colorMask", "clearColor", "depthMask", "depthFunc", "clearDepth",
      "stencilMask", "stencilFunc", "stencilOp", "clearStencil",
      "cullFace", "frontFace", "polygonOffset", "activeTexture",
      "bindFramebuffer", "bindFramebuffer", "bindFramebuffer",
      "useProgram", "lineWidth", "scissor", "viewport">>

\* reset() that sets the driver and leaves the snapshot as it was.
resetDriverOnly(s) ==
    [m |-> s.m,
     g |-> [DriverDefault EXCEPT !.textures = s.g.textures],
     log |-> s.log \o ResetCalls]

\* reset(): the driver back at its defaults (texture bindings are not
\* touched) and the snapshot back at "unknown".
reset(s) ==
    [m |-> [MirrorDeclared EXCEPT !.colorClear = <<-1, 0, 0, 0>>],
     g |-> [DriverDefault EXCEPT !.textures = s.g.textures],
     log |-> s.log \o ResetCalls]

\* createTexture(type, target, count, dimensions) of the constructor leaves
\* the empty textures bound on the active unit.
DriverAfterEmptyTextures ==
    [DriverDefault EXCEPT !.textures[0] = [t \in DOMAIN @ |-> EmptyTexture]]

\* The calls at the end of the constructor ("init").
TrackerConstructed ==
    LET s0 == [m |-> MirrorDeclared, g |-> DriverAfterEmptyTextures, log |-> <<>>]
        s1 == colorBuffer_setClear(s0, 0, 0, 0, 1, FALSE)
        s2 == depthBuffer_setClear(s1, 1)
        s3 == stencilBuffer_setClear(s2, 0)
        s4 == enable(s3, "DEPTH_TEST")
        s5 == depthBuffer_setFunc(s4, "LessEqualDepth")
        s6 == setFlipSided(s5, "false")
        s7 == setCullFace(s6, "CullFaceBack")
        s8 == enable(s7, "CULL_FACE")
    IN setBlending(s8, [blending |-> "NoBlending"])


\* The values the callers pass to the setters.
Bools == {"true", "false"}
DepthFuncs == {"NeverDepth", "AlwaysDepth", "LessDepth", "LessEqualDepth"}
StencilMasks == {0, 255}
StencilFuncs == {<<"ALWAYS", 0, 255>>, <<"EQUAL", 1, 255>>}
StencilOps == {<<"KEEP", "KEEP", "KEEP">>, <<"KEEP", "KEEP", "REPLACE">>}
ClearValues == {0, 1}
CullFaces == {"CullFaceNone", "CullFaceBack", "CullFaceFront", "CullFaceFrontBack"}
LineWidths == {1, 2}
Rects == {Canvas, <<0, 0, 1, 1>>}
FramebufferTargets == {"FRAMEBUFFER", "DRAW_FRAMEBUFFER", "READ_FRAMEBUFFER"}
TextureTypes == {"TEXTURE_2D", "TEXTURE_CUBE_MAP"}
HandleArgs == {NullHandle} \cup Handles
\* The textures bound: null and one texture object.
TextureArgs == {NullHandle, 1}
SlotArgs == Units \cup {Undefined}

\* The arguments of setBlending as setMaterial passes them from a material.
BlendArg(blending, equation, src, color, premultipliedAlpha) ==
    [blending |-> blending, blendEquation |-> equation, blendSrc |-> src,
     blendDst |-> "OneMinusSrcAlphaFactor", blendEquationAlpha |-> "null",
     blendSrcAlpha |-> "null", blendDstAlpha |-> "null", blendColor |-> color,
     blendAlpha |-> 0, premultipliedAlpha |-> premultipliedAlpha]

BlendArgs ==
    {BlendArg("NoBlending", "AddEquation", "SrcAlphaFactor", <<0, 0, 0>>, "false")}
    \cup {BlendArg(b, "AddEquation", "SrcAlphaFactor", <<0, 0, 0>>, p) :
             b \in {"NormalBlending", "AdditiveBlending"}, p \in Bools}
    \cup {BlendArg("CustomBlending", e, f, c, "false") :
             e \in {"AddEquation", "SubtractEquation"},
             f \in {"SrcAlphaFactor", "OneFactor"},
             c \in {<<0, 0, 0>>, <<1, 1, 1>>}}

\* Whether the value a setter is invoked with differs from the snapshot m,
\* by the setter's own comparison.
Differs(op, arg, m) ==
    CASE op = "enable" -> m.caps[arg[1]] # "true"
      [] op = "disable" -> m.caps[arg[1]] # "false"
      [] op = "colorBuffer.setMask" -> m.colorMask # arg[1]
      [] op = "colorBuffer.setClear" ->
            m.colorClear # (IF arg[5] THEN <<arg[1] * arg[4], arg[2] * arg[4], arg[3] * arg[4], arg[4]>>
                            ELSE <<arg[1], arg[2], arg[3], arg[4]>>)
      [] op = "depthBuffer.setTest" -> m.caps["DEPTH_TEST"] # arg[1]
      [] op = "depthBuffer.setMask" -> m.depthMask # arg[1]
      [] op = "depthBuffer.setFunc" -> m.depthFunc # arg[1]
      [] op = "depthBuffer.setClear" -> m.depthClear # arg[1]
      [] op = "stencilBuffer.setTest" -> m.caps["STENCIL_TEST"] # arg[1]
      [] op = "stencilBuffer.setMask" -> m.stencilMask # arg[1]
      [] op = "stencilBuffer.setFunc" -> m.stencilFunc # arg[1]
      [] op = "stencilBuffer.setOp" -> m.stencilOp # arg[1]
      [] op = "stencilBuffer.setClear" -> m.stencilClear # arg[1]
      [] op = "bindFramebuffer" -> m.boundFramebuffers[arg[1]] # arg[2]
      [] op = "useProgram" -> m.program # arg[1]
      [] op = "setFlipSided" -> m.flipSided # arg[1]
      [] op = "setLineWidth" -> m.lineWidth # arg[1]
      [] op = "setScissorTest" -> m.caps["SCISSOR_TEST"] # arg[1]
      [] op = "activeTexture" ->
            m.textureSlot # (IF arg[1] = Undefined THEN LastUnit ELSE arg[1])
      [] op = "scissor" -> m.scissor # arg[1]
      [] op = "viewport" -> m.viewport # arg[1]
      [] op = "setCullFace" -> m.cullFace # arg[1]
      [] op = "setPolygonOffset" ->
            IF arg[1] THEN \/ m.caps["POLYGON_OFFSET_FILL"] # "true"
                           \/ m.polygonOffsetFactor # arg[2]
                           \/ m.polygonOffsetUnits # arg[3]
            ELSE m.caps["POLYGON_OFFSET_FILL"] # "false"
      [] op = "bindTexture" ->
            LET slot == IF arg[3] = Undefined
                        THEN IF m.textureSlot = Undefined THEN LastUnit ELSE m.textureSlot
                        ELSE arg[3] IN
            m.boundTextures[slot] # [type |-> arg[1], texture |-> arg[2]]
      [] op = "setBlending" ->
            LET b == arg[1] IN
            IF b.blending = "NoBlending" THEN m.blendingEnabled
            ELSE IF b.blending # "CustomBlending"
            THEN \/ ~m.blendingEnabled
                 \/ b.blending # m.blending
                 \/ b.premultipliedAlpha # m.premultipliedAlpha
            ELSE \/ ~m.blendingEnabled
                 \/ b.blendEquation # m.blendEquation
                 \/ OrElse(b.blendEquationAlpha, b.blendEquation) # m.blendEquationAlpha
                 \/ b.blendSrc # m.blendSrc \/ b.blendDst # m.blendDst
                 \/ OrElse(b.blendSrcAlpha, b.blendSrc) # m.blendSrcAlpha
                 \/ OrElse(b.blendDstAlpha, b.blendDst) # m.blendDstAlpha
                 \/ b.blendColor # m.blendColor \/ b.blendAlpha # m.blendAlpha
      [] OTHER -> FALSE

\* A setter invocation of family fam, leaving r.
Invoke(fam, r) ==
    /\ family = fam
    /\ st' = r.m
    /\ gl' = r.g
    /\ issued' = r.log
    /\ threw' = "none"
    /\ UNCHANGED <<family, lineWidthAvailable>>
    /\ UNCHANGED notStateVars

\* The tracker and the driver as the invocation finds them.
S0 == [m |-> st, g |-> gl, log |-> <<>>]

FamilyCap(fam) ==
    CASE fam = "depth" -> {"DEPTH_TEST"}
      [] fam = "stencil" -> {"STENCIL_TEST"}
      [] fam = "blend" -> {"BLEND"}
      [] fam = "cull" -> {"CULL_FACE"}
      [] fam = "line" -> {"POLYGON_OFFSET_FILL"}
      [] fam = "program" -> {"SCISSOR_TEST"}
      [] OTHER -> {}

\* The setter invocations <<setter, arguments>> of the family exercised.
SetterCalls ==
    {<<"enable", <<id>>>> : id \in FamilyCap(family)}
    \cup {<<"disable", <<id>>>> : id \in FamilyCap(family)}
    \cup
    CASE family = "color" -> {<<"colorBuffer.setMask", <<v>>>> : v \in Bools}
      [] family = "clear" ->
            {<<"colorBuffer.setClear", <<r, 0, 0, a, p>>>> :
                r \in ClearValues, a \in ClearValues, p \in BOOLEAN}
            \cup {<<"depthBuffer.setClear", <<d>>>> : d \in ClearValues}
            \cup {<<"stencilBuffer.setClear", <<d>>>> : d \in ClearValues}
      [] family = "depth" ->
            {<<"depthBuffer.setTest", <<v>>>> : v \in Bools}
            \cup {<<"depthBuffer.setMask", <<v>>>> : v \in Bools}
            \cup {<<"depthBuffer.setFunc", <<f>>>> : f \in DepthFuncs}
      [] family = "stencil" ->
            {<<"stencilBuffer.setTest", <<v>>>> : v \in Bools}
            \cup {<<"stencilBuffer.setMask", <<v>>>> : v \in StencilMasks}
            \cup {<<"stencilBuffer.setFunc", <<f>>>> : f \in StencilFuncs}
            \cup {<<"stencilBuffer.setOp", <<o>>>> : o \in StencilOps}
      [] family = "blend" -> {<<"setBlending", <<b>>>> : b \in BlendArgs}
      [] family = "cull" ->
            {<<"setCullFace", <<c>>>> : c \in CullFaces}
            \cup {<<"setFlipSided", <<v>>>> : v \in Bools}
      [] family = "line" ->
            {<<"setLineWidth", <<w>>>> : w \in LineWidths}
            \cup {<<"setPolygonOffset", <<p, f, 1>>>> : p \in BOOLEAN, f \in ClearValues}
      [] family = "program" ->
            {<<"useProgram", <<p>>>> : p \in HandleArgs}
            \cup {<<"setScissorTest", <<v>>>> : v \in Bools}
            \cup {<<"scissor", <<v>>>> : v \in Rects}
            \cup {<<"viewport", <<v>>>> : v \in Rects}
      [] family = "framebuffer" ->
            {<<"bindFramebuffer", <<t, f>>>> : t \in FramebufferTargets, f \in HandleArgs}
      [] family = "texture" ->
            {<<"activeTexture", <<u>>>> : u \in SlotArgs}
            \cup {<<"bindTexture", <<t, h, u>>>> :
                     t \in TextureTypes, h \in TextureArgs, u \in SlotArgs}
      [] OTHER -> {}

\* The invocations that set no value of the driver's: the locks of the
\* buffers, unbindTexture and reset.
ControlCalls ==
    {<<"reset", <<>>>>}
    \cup
    CASE family = "color" -> {<<"colorBuffer.setLocked", <<v>>>> : v \in BOOLEAN}
      [] family = "depth" -> {<<"depthBuffer.setLocked", <<v>>>> : v \in BOOLEAN}
      [] family = "stencil" -> {<<"stencilBuffer.setLocked", <<v>>>> : v \in BOOLEAN}
      [] family = "texture" -> {<<"unbindTexture", <<>>>>}
      [] OTHER -> {}

\* The invocation c made on s: the functions the tracker returns.
Apply(c, s) ==
    LET op == c[1]
        a == c[2] IN
    CASE op = "enable" -> enable(s, a[1])
      [] op = "disable" -> disable(s, a[1])
      [] op = "colorBuffer.setMask" -> colorBuffer_setMask(s, a[1])
      [] op = "colorBuffer.setClear" -> colorBuffer_setClear(s, a[1], a[2], a[3], a[4], a[5])
      [] op = "depthBuffer.setTest" -> depthBuffer_setTest(s, a[1] = "true")
      [] op = "depthBuffer.setMask" -> depthBuffer_setMask(s, a[1])
      [] op = "depthBuffer.setFunc" -> depthBuffer_setFunc(s, a[1])
      [] op = "depthBuffer.setClear" -> depthBuffer_setClear(s, a[1])
      [] op = "stencilBuffer.setTest" -> stencilBuffer_setTest(s, a[1] = "true")
      [] op = "stencilBuffer.setMask" -> stencilBuffer_setMask(s, a[1])
      [] op = "stencilBuffer.setFunc" -> stencilBuffer_setFunc(s, a[1][1], a[1][2], a[1][3])
      [] op = "stencilBuffer.setOp" -> stencilBuffer_setOp(s, a[1][1], a[1][2], a[1][3])
      [] op = "stencilBuffer.setClear" -> stencilBuffer_setClear(s, a[1])
      [] op = "bindFramebuffer" -> bindFramebuffer(s, a[1], a[2])
      [] op = "useProgram" -> useProgram(s, a[1])
      [] op = "setBlending" -> setBlending(s, a[1])
      [] op = "setFlipSided" -> setFlipSided(s, a[1])
      [] op = "setCullFace" -> setCullFace(s, a[1])
      [] op = "setLineWidth" -> setLineWidth(s, a[1], lineWidthAvailable)
      [] op = "setPolygonOffset" -> setPolygonOffset(s, a[1], a[2], a[3])
      [] op = "setScissorTest" -> setScissorTest(s, a[1] = "true")
      [] op = "activeTexture" -> activeTexture(s, a[1])
      [] op = "bindTexture" -> bindTexture(s, a[1], a[2], a[3])
      [] op = "scissor" -> scissor(s, a[1])
      [] op = "viewport" -> viewport(s, a[1])
      [] op = "colorBuffer.setLocked" -> colorBuffer_setLocked(s, a[1])
      [] op = "depthBuffer.setLocked" -> depthBuffer_setLocked(s, a[1])
      [] op = "stencilBuffer.setLocked" -> stencilBuffer_setLocked(s, a[1])
      [] op = "unbindTexture" -> unbindTexture(s)
      [] OTHER -> reset(s)

\* A setter of the family is invoked with a value.
Setter == \E c \in SetterCalls : Invoke(family, Apply(c, S0))

\* A buffer is locked or unlocked, the texture of the active unit is unbound,
\* or the tracker is reset.
Control == \E c \in ControlCalls : Invoke(family, Apply(c, S0))

InitState ==
    /\ family \in Families
    /\ st = TrackerConstructed.m
    /\ gl = TrackerConstructed.g
    /\ lineWidthAvailable \in (IF family = "line" THEN BOOLEAN ELSE {TRUE})
    /\ issued = TrackerConstructed.log
    /\ threw = "none"

\* The tracker of a specification that does not exercise it.
StateIdle ==
    /\ family = "none"
    /\ st = TrackerConstructed.m
    /\ gl = TrackerConstructed.g
    /\ lineWidthAvailable = TRUE
    /\ issued = TrackerConstructed.log
    /\ threw = "none"

NextState == Setter \/ Control

----------------------------------------------------------------------------
(***************************************************************************)
(* Texture cache (WebGLTextures).                                          *)
(*                                                                         *)
(* An operation is an operator on x = [tp, sp, src, img, objs, count, mem, *)
(* s, threw]: tp and sp the properties of the textures and of the sources, *)
(* src the _sources map, img the byteLength of the data of the sources'    *)
(* images, objs the driver's texture objects, count the                    *)
(* number of gl.createTexture calls, mem info.memory.textures, s the state *)
(* tracker and the driver as the tracker's setters take them, and threw    *)
(* the error thrown.                                                       *)
(* Textures are 2D textures with a complete image unless said otherwise;   *)
(* a texture keeps the source it was constructed or cloned with.           *)
(***************************************************************************)

\* textureProperties.__cacheKey of a texture that was never initialised.
NoKey == <<>>

\* The wrapping modes the callers choose between; the other thirteen
\* parameters of the cache key (magFilter here) keep their value.
Wrappings == {"ClampToEdgeWrapping", "RepeatWrapping"}

\* getTextureCacheKey(texture)
getTextureCacheKey(texture) == <<texture.wrapS, texture.magFilter>>

CacheKeys == {<<w, "LinearFilter">> : w \in Wrappings}

\* wrappingToGL
wrappingToGL(wrap) ==
    CASE wrap = "RepeatWrapping" -> "REPEAT"
      [] wrap = "ClampToEdgeWrapping" -> "CLAMP_TO_EDGE"
      [] OTHER -> "MIRRORED_REPEAT"

\* properties.get(texture) of a texture the store has no bag for.
NoTextureProperties ==
    [webglInit |-> FALSE, cacheKey |-> NoKey, webglTexture |-> Undefined,
     version |-> Undefined]

\* webglTextures[key] === undefined
NoEntry == [texture |-> Undefined, usedTimes |-> 0]

\* _sources.get(source) === undefined
NoWebglTextures == [present |-> FALSE, entries |-> [k \in CacheKeys |-> NoEntry]]

\* A texture object the driver never created.
NoTextureObject ==
    [status |-> "none", wrapS |-> "none", size |-> Undefined, data |-> Undefined]

\* The content of a texture object after a texSubImage2D of an image
\* smaller than its storage: texels of two uploads.
Mixed == Undefined - 1

\* One gl call of the texture cache, in the log of the tracker's calls.
Call(x, fn) == [x EXCEPT !.s = Issue(x.s, fn, x.s.g)]

\* gl.deleteTexture(handle): the object is deleted and the driver's bindings
\* of it revert to no texture.
GLDeleteTexture(x, handle) ==
    LET x1 == Call(x, "deleteTexture") IN
    [x1 EXCEPT !.objs[handle] = [NoTextureObject EXCEPT !.status = "deleted"],
               !.s.g.textures =
                   [u \in DOMAIN @ |-> [t \in DOMAIN @[u] |->
                       IF @[u][t] = handle THEN NullHandle ELSE @[u][t]]]]

\* deleteTexture(texture)
deleteTexture(x, t, texture) ==
    LET x1 == GLDeleteTexture(x, x.tp[t].webglTexture) IN
    [x1 EXCEPT !.src[texture.source].entries[x.tp[t].cacheKey] = NoEntry,
               !.mem = @ - 1]

\* usedTimes === 0 of a handle whose user left, with the test always true.
HandleUnusedAlways(usedTimes) == TRUE

\* webglTexture.usedTimes === 0
HandleUnused(usedTimes) == usedTimes = 0

\* initTexture: the branch textureCacheKey !== textureProperties.__cacheKey.
\* r.x is what it leaves, r.forceUpload what initTexture returns.
initTextureKeyChanged(x, t, texture, textureCacheKey) ==
    LET created == x.src[texture.source].entries[textureCacheKey].texture = Undefined
        x1 == IF created
              THEN [Call(x, "createTexture") EXCEPT
                       !.src[texture.source].entries[textureCacheKey] =
                           [texture |-> x.count + 1, usedTimes |-> 0],
                       !.objs[x.count + 1] = [NoTextureObject EXCEPT !.status = "live"],
                       !.count = @ + 1,
                       !.mem = @ + 1]
              ELSE x
        x2 == [x1 EXCEPT !.src[texture.source].entries[textureCacheKey].usedTimes = @ + 1]
        old == x.tp[t].cacheKey
        x3 == IF old # NoKey /\ x2.src[texture.source].entries[old].texture # Undefined
              THEN LET x4 == [x2 EXCEPT !.src[texture.source].entries[old].usedTimes = @ - 1] IN
                   IF HandleUnused(x4.src[texture.source].entries[old].usedTimes)
                   THEN deleteTexture(x4, t, texture)
                   ELSE x4
              ELSE x2
    IN [x |-> [x3 EXCEPT !.tp[t].cacheKey = textureCacheKey,
                         !.tp[t].webglTexture =
                             x3.src[texture.source].entries[textureCacheKey].texture],
        forceUpload |-> created]

\* initTexture(textureProperties, texture)
initTexture(x, t, texture) ==
    LET x1 == [x EXCEPT !.tp[t].webglInit = TRUE,
                        !.src[texture.source].present = TRUE]
        textureCacheKey == getTextureCacheKey(texture)
    IN IF textureCacheKey # x.tp[t].cacheKey
       THEN initTextureKeyChanged(x1, t, texture, textureCacheKey)
       ELSE [x |-> x1, forceUpload |-> FALSE]

\* The texture object bound to TEXTURE_2D on the driver's active unit.
BoundTexture2D(g) == g.textures[g.activeTexture]["TEXTURE_2D"]

\* The upload of uploadTexture: setTextureParameters, state.texStorage2D when
\* memory is allocated, state.texSubImage2D; they act on the bound object.
\* texStorage2D gives an object without storage a storage of the image's
\* size (the driver rejects it for an object that has one); texSubImage2D
\* writes the image into the storage: the driver rejects an image larger
\* than the storage (a gl error, no exception) and writes a smaller one
\* over a part of it.
uploadImage(x, texture, sourceVersion, allocateMemory) ==
    LET x1 == Call(x, "texParameteri")
        x2 == IF allocateMemory THEN Call(x1, "texStorage2D") ELSE x1
        x3 == Call(x2, "texSubImage2D")
        bound == BoundTexture2D(x.s.g)
        byteLength == x.img[texture.source]
    IN IF bound \in DOMAIN x.objs
       THEN LET size == IF allocateMemory /\ x.objs[bound].size = Undefined
                        THEN byteLength
                        ELSE x.objs[bound].size
            IN [x3 EXCEPT !.objs[bound].wrapS = wrappingToGL(texture.wrapS),
                          !.objs[bound].size = size,
                          !.objs[bound].data =
                              IF byteLength = size THEN sourceVersion
                              ELSE IF byteLength > size THEN @
                              ELSE Mixed]
       ELSE x3

\* uploadTexture(textureProperties, texture, slot); sourceVersion is
\* texture.source.version.
uploadTexture(x, t, texture, sourceVersion, slot) ==
    LET i == initTexture(x, t, texture)
        x1 == [i.x EXCEPT !.s = bindTexture(i.x.s, "TEXTURE_2D", i.x.tp[t].webglTexture, slot)]
        x2 == IF sourceVersion # x1.sp[texture.source] \/ i.forceUpload
              THEN LET x3 == [x1 EXCEPT !.s = activeTexture(x1.s, slot)]
                       allocateMemory == x1.sp[texture.source] = Undefined \/ i.forceUpload
                   IN [uploadImage(x3, texture, sourceVersion, allocateMemory) EXCEPT
                          !.sp[texture.source] = sourceVersion]
              ELSE x1
    IN [x2 EXCEPT !.tp[t].version = texture.version]

\* The test of setTexture2D, with the version comparison left out.
TextureNeedsUploadAlways(version, cachedVersion) == version > 0

\* setTexture2D: texture.version > 0 && textureProperties.__version !== texture.version
TextureNeedsUpload(version, cachedVersion) == version > 0 /\ cachedVersion # version

\* setTexture2D(texture, slot); complete: the image is there and complete.
setTexture2D(x, t, texture, sourceVersion, slot, complete) ==
    IF TextureNeedsUpload(texture.version, x.tp[t].version) /\ complete
    THEN uploadTexture(x, t, texture, sourceVersion, slot)
    ELSE [x EXCEPT !.s = bindTexture(x.s, "TEXTURE_2D", x.tp[t].webglTexture, slot)]

\* deallocateTexture(texture), from onTextureDispose. A texture whose
\* _sources entry is missing makes webglTexture.usedTimes -- throw.
deallocateTexture(x, t, texture) ==
    IF ~x.tp[t].webglInit THEN x
    ELSE IF ~x.src[texture.source].present
    THEN [x EXCEPT !.tp[t] = NoTextureProperties]
    ELSE IF \/ x.tp[t].cacheKey \notin CacheKeys
            \/ x.src[texture.source].entries[x.tp[t].cacheKey].texture = Undefined
    THEN [x EXCEPT !.threw = "TypeError"]
    ELSE LET key == x.tp[t].cacheKey
             x1 == [x EXCEPT !.src[texture.source].entries[key].usedTimes = @ - 1]
             x2 == IF HandleUnused(x1.src[texture.source].entries[key].usedTimes)
                   THEN deleteTexture(x1, t, texture)
                   ELSE x1
             x3 == IF \A k \in CacheKeys : x2.src[texture.source].entries[k].texture = Undefined
                   THEN [x2 EXCEPT !.src[texture.source].present = FALSE]
                   ELSE x2
         IN [x3 EXCEPT !.tp[t] = NoTextureProperties]

\* The texture cache, the tracker and the driver as an operation finds them.
X0 ==
    [tp |-> textureProperties, sp |-> sourceProperties, src |-> _sources,
     img |-> imageByteLengths,
     objs |-> glTextureObjects, count |-> textureCount, mem |-> memoryTextures,
     s |-> S0, threw |-> "none"]

\* An operation of the texture cache, leaving x.
Commit(x) ==
    /\ textureProperties' = x.tp
    /\ sourceProperties' = x.sp
    /\ _sources' = x.src
    /\ glTextureObjects' = x.objs
    /\ textureCount' = x.count
    /\ memoryTextures' = x.mem
    /\ st' = x.s.m
    /\ gl' = x.s.g
    /\ issued' = x.s.log
    /\ threw' = x.threw
    /\ UNCHANGED <<textures, sourceVersions, imageByteLengths, family, lineWidthAvailable>>
    /\ UNCHANGED <<programVars, attributeVars, laterVars>>

\* texture.wrapS = wrap, by the application.
SetWrapS(t, wrap) ==
    /\ textures[t].wrapS # wrap
    /\ textures' = [textures EXCEPT ![t].wrapS = wrap]
    /\ UNCHANGED <<sourceVersions, imageByteLengths, textureCacheVars, stateVars, callVars>>
    /\ UNCHANGED <<programVars, attributeVars, laterVars>>

\* texture.image = { data, width, height } with data of another byteLength,
\* by the application: the setter assigns source.data.
SetImage(t, byteLength) ==
    /\ imageByteLengths[textures[t].source] # byteLength
    /\ imageByteLengths' = [imageByteLengths EXCEPT ![textures[t].source] = byteLength]
    /\ UNCHANGED <<textures, sourceVersions, textureCacheVars, stateVars, callVars>>
    /\ UNCHANGED <<programVars, attributeVars, laterVars>>

\* The number of times the textures of T were flagged for update.
RECURSIVE Updates(_)
Updates(T) ==
    IF T = {} THEN 0
    ELSE LET t == CHOOSE u \in T : TRUE IN textures[t].version + Updates(T \ {t})

\* texture.needsUpdate = true: this.version ++; this.source.needsUpdate = true
TextureNeedsUpdate(t) ==
    /\ Updates(Textures) < MaxUpdates
    /\ textures' = [textures EXCEPT ![t].version = @ + 1]
    /\ sourceVersions' = [sourceVersions EXCEPT ![textures[t].source] = @ + 1]
    /\ UNCHANGED <<imageByteLengths, textureCacheVars, stateVars, callVars>>
    /\ UNCHANGED <<programVars, attributeVars, laterVars>>

\* texture.copy(source): the texture takes the source and the parameters of
\* the other texture, and needsUpdate = true.
TextureCopy(t, from) ==
    /\ t # from
    /\ Updates(Textures) < MaxUpdates
    /\ textures' = [textures EXCEPT ![t] = [textures[from] EXCEPT !.version = textures[t].version + 1]]
    /\ sourceVersions' = [sourceVersions EXCEPT ![textures[from].source] = @ + 1]
    /\ UNCHANGED <<imageByteLengths, textureCacheVars, stateVars, callVars>>
    /\ UNCHANGED <<programVars, attributeVars, laterVars>>

\* The call creates a texture object only while the driver has one to give.
HasTextureObject(t) ==
    (/\ TextureNeedsUpload(textures[t].version, textureProperties[t].version)
     /\ getTextureCacheKey(textures[t]) # textureProperties[t].cacheKey
     /\ _sources[textures[t].source].entries[getTextureCacheKey(textures[t])].texture = Undefined)
        => textureCount < MaxTextureHandles

\* The texture unit allocateTextureUnit gives the first sampler of a program.
TextureUnit == 0

\* textures.setTexture2D(texture, slot), as setValueT1 of a uniform calls it.
SetTexture2D(t, slot, complete) ==
    /\ HasTextureObject(t)
    /\ Commit(setTexture2D(X0, t, textures[t], sourceVersions[textures[t].source],
                           slot, complete))

\* texture.dispose(): onTextureDispose
TextureDispose(t) == Commit(deallocateTexture(X0, t, textures[t]))

InitTextures ==
    /\ textures \in [Textures -> {[source |-> s, wrapS |-> "ClampToEdgeWrapping",
                                   magFilter |-> "LinearFilter", version |-> 0] :
                                      s \in Sources}]
    /\ sourceVersions = [s \in Sources |-> 0]
    /\ imageByteLengths = [s \in Sources |-> 1]
    /\ textureProperties = [t \in Textures |-> NoTextureProperties]
    /\ sourceProperties = [s \in Sources |-> Undefined]
    /\ _sources = [s \in Sources |-> NoWebglTextures]
    /\ glTextureObjects = [h \in TextureHandles |-> NoTextureObject]
    /\ textureCount = 0
    /\ memoryTextures = 0

\* The texture cache of a specification that does not exercise it.
TexturesIdle ==
    /\ InitTextures
    /\ \A t \in Textures : textures[t].source = 1

NextTextures ==
    \/ \E t \in Textures, w \in Wrappings : SetWrapS(t, w)
    \/ \E t \in Textures : TextureNeedsUpdate(t)
    \/ \E t \in Textures, complete \in BOOLEAN : SetTexture2D(t, TextureUnit, complete)
    \/ \E t \in Textures : TextureDispose(t)

\* The texture cache with textures that take the source of another texture.
NextSources ==
    \/ NextTextures
    \/ \E t, from \in Textures : TextureCopy(t, from)

\* The texture cache with images whose data is replaced.
NextImages ==
    \/ NextTextures
    \/ \E t \in Textures, byteLength \in ImageByteLengths : SetImage(t, byteLength)

----------------------------------------------------------------------------
(***************************************************************************)
(* Buffer cache (WebGLAttributes).                                         *)
(*                                                                         *)
(* An operation is an operator on y = [buffers, objs, count, log, threw]:  *)
(* buffers the WeakMap of cached buffers, objs the driver's buffer         *)
(* objects, count the number of gl.createBuffer calls, log the gl calls    *)
(* made, threw the error thrown. An attribute is the object update()       *)
(* looks up: a BufferAttribute, the InterleavedBuffer of an interleaved    *)
(* attribute, or a GLBufferAttribute. It is uploaded as a whole            *)
(* (updateRanges is empty).                                                *)
(***************************************************************************)

\* The typed arrays the application builds attributes on.
ArrayTypes == {"Float32Array", "Float64Array"}

\* The attributes the application constructs; the buffer of a
\* GLBufferAttribute is one the application created itself (0 here).
AttributeKinds ==
    {[isGLBufferAttribute |-> FALSE, arrayType |-> a, byteLength |-> 1,
      buffer |-> Undefined, version |-> 0] : a \in ArrayTypes}
    \cup {[isGLBufferAttribute |-> TRUE, arrayType |-> "none", byteLength |-> 0,
           buffer |-> 0, version |-> 0]}

\* The byte lengths of the arrays an attribute is given.
ByteLengths == {1, 2}

\* buffers.get(attribute) === undefined
NoBuffer == [present |-> FALSE, buffer |-> Undefined, type |-> "none",
             version |-> Undefined, size |-> Undefined]

\* A buffer object the driver never created.
NoBufferObject == [status |-> "none", data |-> Undefined, size |-> 0]

\* One gl call of the buffer cache.
BufferCall(y, fn) == [y EXCEPT !.log = Append(@, fn)]

\* createBuffer: the gl type of the array; "none" where createBuffer throws
\* 'Unsupported buffer data format'.
arrayTypeToGL(arrayType) ==
    CASE arrayType = "Float32Array" -> "FLOAT"
      [] arrayType = "Uint16Array" -> "UNSIGNED_SHORT"
      [] arrayType = "Int16Array" -> "SHORT"
      [] arrayType = "Uint32Array" -> "UNSIGNED_INT"
      [] arrayType = "Int32Array" -> "INT"
      [] arrayType = "Int8Array" -> "BYTE"
      [] arrayType = "Uint8Array" -> "UNSIGNED_BYTE"
      [] arrayType = "Uint8ClampedArray" -> "UNSIGNED_BYTE"
      [] OTHER -> "none"

\* createBuffer(attribute, bufferType): the buffer is created and filled
\* before the type of the array is looked at. r.y is what it leaves, r.data
\* the record it returns.
createBuffer(y, attribute) ==
    LET buffer == y.count + 1
        y1 == BufferCall(BufferCall(BufferCall(y, "createBuffer"), "bindBuffer"), "bufferData")
        y2 == [y1 EXCEPT !.count = buffer,
                         !.objs[buffer] = [status |-> "live", data |-> attribute.version,
                                           size |-> attribute.byteLength]]
        type == arrayTypeToGL(attribute.arrayType)
    IN IF type = "none"
       THEN [y |-> [y2 EXCEPT !.threw = "Unsupported buffer data format"], data |-> NoBuffer]
       ELSE [y |-> y2,
             data |-> [present |-> TRUE, buffer |-> buffer, type |-> type,
                       version |-> attribute.version, size |-> attribute.byteLength]]

\* updateBuffer(buffer, attribute, bufferType)
updateBuffer(y, buffer, attribute) ==
    LET y1 == BufferCall(BufferCall(y, "bindBuffer"), "bufferSubData") IN
    IF buffer \in DOMAIN y.objs
    THEN [y1 EXCEPT !.objs[buffer].data = attribute.version]
    ELSE y1

\* The error update throws for an array of another size.
ResizingNotSupported == "Resizing buffer attributes is not supported"

\* update(attribute, bufferType) of a cache that would give an attribute
\* whose array changed size a buffer of the new size.
updateReallocating(y, a, attribute) ==
    IF attribute.isGLBufferAttribute
    THEN y
    ELSE IF ~y.buffers[a].present \/ y.buffers[a].size # attribute.byteLength
    THEN LET r == createBuffer(y, attribute) IN
         IF r.y.threw # "none" THEN r.y ELSE [r.y EXCEPT !.buffers[a] = r.data]
    ELSE IF y.buffers[a].version < attribute.version
    THEN [updateBuffer(y, y.buffers[a].buffer, attribute) EXCEPT
             !.buffers[a].version = attribute.version]
    ELSE y

\* update(attribute, bufferType)
update(y, a, attribute) ==
    IF attribute.isGLBufferAttribute
    THEN IF ~y.buffers[a].present \/ y.buffers[a].version < attribute.version
         THEN [y EXCEPT !.buffers[a] =
                  [present |-> TRUE, buffer |-> attribute.buffer, type |-> "none",
                   version |-> attribute.version, size |-> Undefined]]
         ELSE y
    ELSE IF ~y.buffers[a].present
    THEN LET r == createBuffer(y, attribute) IN
         IF r.y.threw # "none" THEN r.y ELSE [r.y EXCEPT !.buffers[a] = r.data]
    ELSE IF y.buffers[a].version < attribute.version
    THEN IF y.buffers[a].size # attribute.byteLength
         THEN [y EXCEPT !.threw = ResizingNotSupported]
         ELSE [updateBuffer(y, y.buffers[a].buffer, attribute) EXCEPT
                  !.buffers[a].version = attribute.version]
    ELSE y

\* remove(attribute)
remove(y, a) ==
    IF y.buffers[a].present
    THEN LET y1 == BufferCall(y, "deleteBuffer")
             buffer == y.buffers[a].buffer
             y2 == IF buffer \in DOMAIN y.objs
                   THEN [y1 EXCEPT !.objs[buffer].status = "deleted"]
                   ELSE y1
         IN [y2 EXCEPT !.buffers[a] = NoBuffer]
    ELSE y

\* The buffer cache and the driver's buffers as an operation finds them.
Y0 == [buffers |-> buffers, objs |-> glBufferObjects, count |-> bufferCount,
       log |-> <<>>, threw |-> "none"]

\* An operation of the buffer cache, leaving y.
CommitBuffers(y) ==
    /\ buffers' = y.buffers
    /\ glBufferObjects' = y.objs
    /\ bufferCount' = y.count
    /\ issued' = y.log
    /\ threw' = y.threw
    /\ UNCHANGED <<attributes, stateVars, programVars, textureVars, laterVars>>

\* attributes.update(attribute, bufferType), while the driver has a buffer
\* object to give.
AttributeUpdate(a) ==
    /\ (~attributes[a].isGLBufferAttribute /\ ~buffers[a].present) => bufferCount < MaxBuffers
    /\ CommitBuffers(update(Y0, a, attributes[a]))

\* attributes.remove(attribute)
AttributeRemove(a) == CommitBuffers(remove(Y0, a))

\* attribute.needsUpdate = true: this.version ++
AttributeNeedsUpdate(a) ==
    /\ attributes[a].version < MaxVersion
    /\ attributes' = [attributes EXCEPT ![a].version = @ + 1]
    /\ UNCHANGED <<attributeCacheVars, callVars, stateVars, programVars, textureVars, laterVars>>

\* attribute.array = a typed array of another length, by the application.
AttributeSetArray(a, byteLength) ==
    /\ ~attributes[a].isGLBufferAttribute
    /\ attributes[a].byteLength # byteLength
    /\ attributes' = [attributes EXCEPT ![a].byteLength = byteLength]
    /\ UNCHANGED <<attributeCacheVars, callVars, stateVars, programVars, textureVars, laterVars>>

InitAttributes ==
    /\ attributes \in [Attributes -> AttributeKinds]
    /\ buffers = [a \in Attributes |-> NoBuffer]
    /\ glBufferObjects = [b \in BufferIds |-> NoBufferObject]
    /\ bufferCount = 0

\* The buffer cache of a specification that does not exercise it.
AttributesIdle ==
    /\ InitAttributes
    /\ \A a \in Attributes : attributes[a].arrayType = "Float32Array"

NextAttributes ==
    \/ \E a \in Attributes : AttributeUpdate(a)
    \/ \E a \in Attributes : AttributeRemove(a)
    \/ \E a \in Attributes : AttributeNeedsUpdate(a)
    \/ \E a \in Attributes, n \in ByteLengths : AttributeSetArray(a, n)

----------------------------------------------------------------------------
(***************************************************************************)
(* Program cache: the properties checked.                                  *)
(***************************************************************************)

\* The program instances constructed so far.
Created == 0..(programIdCount - 1)

\* The materials whose programs map contains program p.
Holders(p) == {m \in Materials : \E k \in Keys : materialProperties[m][k] = p}

\* The materials whose programs map has an entry for cache key k.
KeyHolders(k) == {m \in Materials : materialProperties[m][k] # Undefined}

\* The programs of the cache (the elements of the programs array).
Cached == {programs[i] : i \in 1..Len(programs)}

\* C1: when a material acquires a program for a cache key another material
\* already holds, it receives that same program instance and the instance's
\* usedTimes goes up by one; gl.deleteProgram is called on an instance only
\* in the step that takes its usedTimes to zero, when no material holds it any
\* more, and never a second time.
C1_SharedInstanceDeletedOnce ==
    [][ /\ \A m \in Materials, k \in Keys :
             (/\ materialProperties[m][k] = Undefined
              /\ materialProperties'[m][k] # Undefined
              /\ KeyHolders(k) # {})
             => \A m2 \in KeyHolders(k) :
                   /\ materialProperties'[m][k] = materialProperties[m2][k]
                   /\ programObjs'[materialProperties[m2][k]].usedTimes
                        = programObjs[materialProperties[m2][k]].usedTimes + 1
        /\ \A p \in ProgramIds :
             /\ glDeleteProgram'[p] # glDeleteProgram[p]
                  => /\ glDeleteProgram[p] = 0
                     /\ glDeleteProgram'[p] = 1
                     /\ programObjs'[p].usedTimes = 0
             /\ (p \in Created /\ programObjs[p].usedTimes # 0
                   /\ programObjs'[p].usedTimes = 0)
                  => /\ glDeleteProgram'[p] = 1
                     /\ \A m \in Materials, k \in Keys :
                           materialProperties'[m][k] # p
      ]_vars

\* C1 witness: two materials hold the same instance for one cache key and its
\* usedTimes is two.
C1_Witness ==
    \E m1, m2 \in Materials, k \in Keys :
        /\ m1 # m2
        /\ materialProperties[m1][k] # Undefined
        /\ materialProperties[m1][k] = materialProperties[m2][k]
        /\ programObjs[materialProperties[m1][k]].usedTimes = 2

\* C2: a program is deleted only at usedTimes zero. For each cache key: held
\* by three materials, one program of that key is cached and its usedTimes is
\* 3; held by one material, that one's program is cached with usedTimes 1 and
\* was never deleted; held by none, no program of that key is cached and every
\* program ever compiled for it has been deleted, at usedTimes zero.
C2_DeletedOnlyAtZero ==
    /\ \A p \in Created : glDeleteProgram[p] > 0 => programObjs[p].usedTimes = 0
    /\ \A k \in Keys :
         LET ofKey == {p \in Cached : programObjs[p].cacheKey = k} IN
         /\ Cardinality(KeyHolders(k)) = 3
              => /\ Cardinality(ofKey) = 1
                 /\ \A p \in ofKey : programObjs[p].usedTimes = 3
         /\ Cardinality(KeyHolders(k)) = 1
              => \A m \in KeyHolders(k) :
                    /\ ofKey = {materialProperties[m][k]}
                    /\ programObjs[materialProperties[m][k]].usedTimes = 1
                    /\ programObjs[materialProperties[m][k]].program = "linked"
                    /\ glDeleteProgram[materialProperties[m][k]] = 0
         /\ KeyHolders(k) = {}
              => /\ ofKey = {}
                 /\ \A p \in Created :
                       programObjs[p].cacheKey = k
                         => /\ glDeleteProgram[p] = 1
                            /\ programObjs[p].program = "undefined"

\* C2 witness: a program has been deleted (its last holder released it) while
\* another program of the same cache key, compiled afterwards, is held.
C2_Witness ==
    \E p, q \in Created :
        /\ glDeleteProgram[p] = 1
        /\ programObjs[p].usedTimes = 0
        /\ programObjs[q].cacheKey = programObjs[p].cacheKey
        /\ q \in Cached
        /\ programObjs[q].usedTimes = 1

\* C3: no two programs of the cache have the same cache key.
C3_OneProgramPerKey ==
    \A i, j \in 1..Len(programs) :
        programObjs[programs[i]].cacheKey = programObjs[programs[j]].cacheKey => i = j

\* C3 witness: the cache holds programs of two cache keys, one of them shared,
\* after an earlier program was released and deleted.
C3_Witness ==
    /\ Len(programs) = 2
    /\ \E p \in Cached : programObjs[p].usedTimes >= 2
    /\ \E p \in Created : glDeleteProgram[p] = 1

----------------------------------------------------------------------------
(***************************************************************************)
(* State tracker: the properties checked.                                  *)
(***************************************************************************)

\* The setters with one underlying gl call.
SingleCall ==
    {"enable", "disable", "colorBuffer.setMask", "colorBuffer.setClear",
     "depthBuffer.setTest", "depthBuffer.setMask", "depthBuffer.setFunc",
     "depthBuffer.setClear", "stencilBuffer.setTest", "stencilBuffer.setMask",
     "stencilBuffer.setFunc", "stencilBuffer.setOp", "stencilBuffer.setClear",
     "bindFramebuffer", "useProgram", "setFlipSided", "setLineWidth",
     "setScissorTest", "activeTexture", "scissor", "viewport"}

\* What c leaves when invoked now, and when invoked again right after.
First(c) == Apply(c, S0)
Second(c) == Apply(c, [First(c) EXCEPT !.log = <<>>])

\* The setters that do nothing while their buffer is locked.
Locked(op, m) ==
    \/ op = "colorBuffer.setMask" /\ m.colorLocked
    \/ op = "depthBuffer.setMask" /\ m.depthLocked
    \/ op \in {"stencilBuffer.setMask", "stencilBuffer.setTest"} /\ m.stencilLocked

\* No gl function is called twice.
NoRepeat(log) == \A i, j \in 1..Len(log) : log[i] = log[j] => i = j

\* C5, as the spec states it, read for the setters that have one underlying
\* gl call: invoked twice in a row with the same value, a setter issues the
\* call at most once; invoked with a value that differs from the snapshot, it
\* issues the call exactly once and the snapshot then holds the value.
C5_EverySetterIssuesOnce ==
    \A c \in SetterCalls :
        LET first == First(c) IN
        c[1] \in SingleCall =>
            /\ Len(first.log) + Len(Second(c).log) <= 1
            /\ Differs(c[1], c[2], st) =>
                  /\ Len(first.log) = 1
                  /\ ~Differs(c[1], c[2], first.m)

\* C5, amended: invoked twice in a row with the same value, a setter calls
\* each underlying gl function at most once, and the second invocation calls
\* none. Invoked with a value that differs from the snapshot: a mask setter
\* (and the stencil setTest) whose buffer is locked calls nothing and leaves
\* the snapshot alone; otherwise the snapshot then holds the value, no gl
\* function is called twice, and a setter with one underlying call issues it
\* exactly once, except setLineWidth where line width is unavailable, which
\* issues none.
C5_SetterContract ==
    \A c \in SetterCalls :
        LET first == First(c)
            op == c[1] IN
        /\ NoRepeat(first.log)
        /\ Apply(c, [first EXCEPT !.log = <<>>]).log = <<>>
        /\ Differs(op, c[2], st) =>
              IF Locked(op, st)
              THEN first.log = <<>> /\ first.m = st
              ELSE /\ ~Differs(op, c[2], first.m)
                   /\ op \in SingleCall =>
                         Len(first.log) =
                            (IF op = "setLineWidth" /\ ~lineWidthAvailable THEN 0 ELSE 1)

\* A program that was not the current one was made current by useProgram with
\* one gl.useProgram call, and the snapshot and the driver hold it.
C5_Witness ==
    /\ family = "program"
    /\ issued = <<"useProgram">>
    /\ st.program \in Handles
    /\ gl.program = st.program
    /\ Second(<<"useProgram", <<st.program>>>>).log = <<>>

\* The gl constant a depth mode of the material denotes.
DepthModeDenotes(depthFunc) ==
    CASE depthFunc = "NeverDepth" -> "NEVER"
      [] depthFunc = "AlwaysDepth" -> "ALWAYS"
      [] depthFunc = "LessDepth" -> "LESS"
      [] OTHER -> "LEQUAL"

\* The binding of the driver that a framebuffer target names.
DriverFramebuffer(target) ==
    IF target = "READ_FRAMEBUFFER" THEN gl.readFramebuffer ELSE gl.drawFramebuffer

\* The recorded binding of a target, where one is recorded, is the driver's.
RecordedFramebufferIsBound(target) ==
    st.boundFramebuffers[target] # Undefined
        => st.boundFramebuffers[target] = DriverFramebuffer(target)

\* C6: after any sequence of setter calls, each mirrored value that holds a
\* value (null and undefined mean "not known") equals the driver's state for
\* that parameter: capabilities, blend parameters, depth function and mask,
\* stencil parameters, cull face, front face, program, framebuffers, active
\* texture unit, bound textures, viewport, scissor.
C6_MirrorEqualsDriver ==
    /\ \A c \in Caps : /\ st.caps[c] = "true" => gl.caps[c]
                       /\ st.caps[c] = "false" => ~gl.caps[c]
    /\ st.blendEquation # "null" =>
          gl.blendEquation = <<equationToGL(st.blendEquation), equationToGL(st.blendEquationAlpha)>>
    /\ st.blendSrc # "null" =>
          gl.blendFunc = <<factorToGL(st.blendSrc), factorToGL(st.blendDst),
                           factorToGL(st.blendSrcAlpha), factorToGL(st.blendDstAlpha)>>
    /\ gl.blendColor = <<st.blendColor[1], st.blendColor[2], st.blendColor[3], st.blendAlpha>>
    /\ st.depthFunc # "null" => gl.depthFunc = DepthModeDenotes(st.depthFunc)
    /\ st.depthMask # "null" => gl.depthMask = st.depthMask
    /\ st.colorMask # "null" => gl.colorMask = st.colorMask
    /\ st.stencilMask # Undefined => gl.stencilMask = st.stencilMask
    /\ st.stencilFunc[1] # "null" => gl.stencilFunc = st.stencilFunc
    /\ st.stencilOp[1] # "null" => gl.stencilOp = st.stencilOp
    /\ st.cullFace \notin {"null", "CullFaceNone"} => gl.cullFace = CullFaceToGL(st.cullFace)
    /\ st.flipSided # "null" => gl.frontFace = (IF st.flipSided = "true" THEN "CW" ELSE "CCW")
    /\ gl.program = st.program
    /\ \A t \in FramebufferTargets : RecordedFramebufferIsBound(t)
    /\ st.textureSlot # Undefined => gl.activeTexture = st.textureSlot
    /\ \A u \in Units :
          st.boundTextures[u].type # "undefined" =>
              gl.textures[u][st.boundTextures[u].type] =
                 (IF st.boundTextures[u].texture = NullHandle THEN EmptyTexture
                  ELSE st.boundTextures[u].texture)
    /\ gl.viewport = st.viewport
    /\ gl.scissor = st.scissor

\* C7: after any sequence of bindFramebuffer calls on the three targets, the
\* binding recorded for each target is the framebuffer the driver has bound
\* to it, so bindFramebuffer skips no call that would change a binding of
\* the driver.
C7_RecordedBindingsAreDriverBindings ==
    family = "framebuffer" =>
        /\ \A t \in FramebufferTargets : RecordedFramebufferIsBound(t)
        /\ \A t \in FramebufferTargets, f \in HandleArgs :
              bindFramebuffer(S0, t, f).log = <<>> => GLBindFramebuffer(gl, t, f) = gl

----------------------------------------------------------------------------
(***************************************************************************)
(* State tracker: the locks of the masks and reset().                      *)
(***************************************************************************)
MaskSetters == {"colorBuffer.setMask", "depthBuffer.setMask", "stencilBuffer.setMask"}

\* setLocked of the buffer whose mask the setter sets.
LockOf(op) ==
    CASE op = "colorBuffer.setMask" -> "colorBuffer.setLocked"
      [] op = "depthBuffer.setMask" -> "depthBuffer.setLocked"
      [] op = "stencilBuffer.setMask" -> "stencilBuffer.setLocked"

\* The driver's mask the setter sets.
DriverMask(op, g) ==
    CASE op = "colorBuffer.setMask" -> g.colorMask
      [] op = "depthBuffer.setMask" -> g.depthMask
      [] op = "stencilBuffer.setMask" -> g.stencilMask

\* C25: while the colour, depth or stencil buffer is locked, a mask request
\* changes neither the driver's state nor the snapshot and issues no call;
\* once the buffer is unlocked, a request for a mask other than the one the
\* snapshot holds (the mask forced before the lock) issues its one call and
\* the driver and the snapshot hold the requested mask.
C25_LockedMaskIsKept ==
    \A c \in SetterCalls :
        c[1] \in MaskSetters =>
            LET op == c[1]
                locked == Apply(<<LockOf(op), <<TRUE>>>>, S0)
                denied == Apply(c, locked)
                unlocked == Apply(<<LockOf(op), <<FALSE>>>>, denied)
                granted == Apply(c, unlocked) IN
            /\ locked.g = gl /\ locked.log = <<>>
            /\ denied.g = gl /\ denied.log = <<>> /\ denied.m = locked.m
            /\ Locked(op, st) => Apply(c, S0) = S0
            /\ unlocked.g = gl /\ unlocked.log = <<>>
            /\ Differs(op, c[2], st) =>
                  /\ Len(granted.log) = 1
                  /\ DriverMask(op, granted.g) = c[2][1]
                  /\ ~Differs(op, c[2], granted.m)

\* The depth buffer is locked with writes forced off: the driver and the
\* snapshot hold the forced mask, and a request to write is denied.
C25_Witness ==
    /\ family = "depth"
    /\ st.depthLocked
    /\ st.depthMask = "false"
    /\ gl.depthMask = "false"
    /\ Apply(<<"depthBuffer.setMask", <<"true">>>>, S0) = S0

\* The tracker that knows nothing on a fresh context.
Unknowing == [m |-> MirrorDeclared, g |-> DriverDefault, log |-> <<>>]

\* The invocation asks for a value other than the driver's default: made
\* on a fresh context by a tracker that knows nothing, it changes the
\* driver's state (a line width other than the default, where the driver
\* takes no line width).
NonDefault(c) ==
    IF c[1] = "setLineWidth"
    THEN c[2][1] # DriverDefault.lineWidth
    ELSE Apply(c, Unknowing).g # DriverDefault

\* Every value of the snapshot is the marker of "unknown" or the driver's
\* default, and no buffer is locked.
UnknownOrDefault(m) ==
    /\ ~m.colorLocked /\ ~m.depthLocked /\ ~m.stencilLocked
    /\ \A c \in Caps : m.caps[c] = "undefined"
    /\ m.colorMask = "null" /\ m.depthMask = "null" /\ m.stencilMask = Undefined
    /\ m.colorClear = <<-1, 0, 0, 0>>
    /\ m.depthClear = Undefined /\ m.stencilClear = Undefined
    /\ m.depthFunc = "null"
    /\ m.stencilFunc = <<"null", Undefined, Undefined>>
    /\ m.stencilOp = <<"null", "null", "null">>
    /\ ~m.blendingEnabled /\ m.blending = "null"
    /\ m.blendEquation = "null" /\ m.blendSrc = "null" /\ m.blendDst = "null"
    /\ m.blendEquationAlpha = "null" /\ m.blendSrcAlpha = "null"
    /\ m.blendDstAlpha = "null"
    /\ m.blendColor = <<0, 0, 0>> /\ m.blendAlpha = 0
    /\ m.premultipliedAlpha = "false"
    /\ m.flipSided = "null" /\ m.cullFace = "null"
    /\ m.lineWidth = Undefined
    /\ m.polygonOffsetFactor = Undefined /\ m.polygonOffsetUnits = Undefined
    /\ m.program = NullHandle
    /\ \A t \in DOMAIN m.boundFramebuffers : m.boundFramebuffers[t] = Undefined
    /\ m.textureSlot = Undefined
    /\ \A u \in Units : m.boundTextures[u] = [type |-> "undefined", texture |-> Undefined]
    /\ m.scissor = DriverDefault.scissor /\ m.viewport = DriverDefault.viewport

\* The tracker after reset(), before the next invocation.
AfterReset == [reset(S0) EXCEPT !.log = <<>>]

----------------------------------------------------------------------------
(***************************************************************************)
(* Texture cache and buffer cache: the properties checked.                 *)
(***************************************************************************)

\* The textures that use the handle cached for source s under key k.
Users(s, k) ==
    {t \in Textures : textures[t].source = s /\ textureProperties[t].cacheKey = k}

\* The gl functions that upload to a texture object.
TextureUploads == {"texStorage2D", "texSubImage2D", "texImage2D"}

\* The gl functions of a log.
Called(log) == {log[i] : i \in 1..Len(log)}

\* C8: a texture that shares its source with other textures and changes its
\* sampling parameters gets a handle of its own under the new key, and the
\* handle of the old key is left as it was: the handle of a texture is live
\* and is the one cached for its source under its key, a cached handle
\* counts in usedTimes the textures that use it (at least one), carries the
\* parameters of its key and is cached under no other key. So a handle is
\* deleted only when usedTimes reaches zero, never while a texture uses it.
C8_SharedHandleKept ==
    /\ \A t \in Textures :
          textureProperties[t].webglTexture # Undefined =>
              /\ glTextureObjects[textureProperties[t].webglTexture].status = "live"
              /\ _sources[textures[t].source].entries[textureProperties[t].cacheKey].texture
                    = textureProperties[t].webglTexture
    /\ \A s \in Sources, k \in CacheKeys :
          LET e == _sources[s].entries[k] IN
          e.texture # Undefined =>
              /\ e.usedTimes = Cardinality(Users(s, k))
              /\ e.usedTimes > 0
              /\ glTextureObjects[e.texture].status = "live"
              /\ glTextureObjects[e.texture].wrapS = wrappingToGL(k[1])
              /\ \A s2 \in Sources, k2 \in CacheKeys :
                    <<s2, k2>> # <<s, k>> => _sources[s2].entries[k2].texture # e.texture
    /\ memoryTextures = Cardinality({h \in TextureHandles : glTextureObjects[h].status = "live"})

\* Two textures of one source hold different keys, each with its own live
\* handle that carries its own parameters, after both were uploaded.
C8_Witness ==
    \E t1, t2 \in Textures :
        /\ textures[t1].source = textures[t2].source
        /\ textureProperties[t1].cacheKey # textureProperties[t2].cacheKey
        /\ textureProperties[t1].webglTexture \in TextureHandles
        /\ textureProperties[t2].webglTexture \in TextureHandles
        /\ textureProperties[t1].webglTexture # textureProperties[t2].webglTexture
        /\ glTextureObjects[textureProperties[t1].webglTexture].wrapS = "REPEAT"
        /\ glTextureObjects[textureProperties[t2].webglTexture].wrapS = "CLAMP_TO_EDGE"
        /\ textures[t1].version = 2
        /\ textureProperties[t1].version = 2
        /\ textureProperties[t2].version = textures[t2].version

\* C9: a texture that was uploaded and whose version did not change since is,
\* when requested again, bound with the handle it has, which is live and is
\* then the driver's TEXTURE_2D binding of the unit; no upload is made, no
\* texture object is created, changed or deleted.
C9_UploadedTextureIsRebound ==
    \A t \in Textures, complete \in BOOLEAN :
        (textures[t].version > 0 /\ textureProperties[t].version = textures[t].version) =>
            LET x == setTexture2D(X0, t, textures[t], sourceVersions[textures[t].source],
                                  TextureUnit, complete) IN
            /\ textureProperties[t].webglTexture \in TextureHandles
            /\ x.tp[t].webglTexture = textureProperties[t].webglTexture
            /\ x.s.g.textures[TextureUnit]["TEXTURE_2D"] = textureProperties[t].webglTexture
            /\ Called(x.s.log) \cap (TextureUploads \cup {"createTexture", "deleteTexture"}) = {}
            /\ x.objs = glTextureObjects
            /\ x.objs[textureProperties[t].webglTexture].status = "live"

\* Every texture is initialised and uploaded at its version, one of them is
\* the unit's binding, and the last operation, a request, called no gl
\* function.
C9_Witness ==
    /\ \A t \in Textures :
          /\ textureProperties[t].webglInit
          /\ textures[t].version > 0
          /\ textureProperties[t].version = textures[t].version
          /\ glTextureObjects[textureProperties[t].webglTexture].data # Undefined
    /\ \E t \in Textures :
          gl.textures[TextureUnit]["TEXTURE_2D"] = textureProperties[t].webglTexture
    /\ issued = <<>>

\* The texture was uploaded, the data of its image was replaced by data of
\* another byteLength than the storage of its texture object, and it was
\* flagged for update: the next request uploads it.
ImageResized(t) ==
    /\ textureProperties[t].webglTexture \in TextureHandles
    /\ getTextureCacheKey(textures[t]) = textureProperties[t].cacheKey
    /\ glTextureObjects[textureProperties[t].webglTexture].size # Undefined
    /\ glTextureObjects[textureProperties[t].webglTexture].size
          # imageByteLengths[textures[t].source]
    /\ TextureNeedsUpload(textures[t].version, textureProperties[t].version)
    /\ sourceVersions[textures[t].source] # sourceProperties[textures[t].source]

\* The request of a texture, its image complete.
Requested(t) ==
    setTexture2D(X0, t, textures[t], sourceVersions[textures[t].source], TextureUnit, TRUE)

\* C27: the upload of a texture whose image data changed its byteLength
\* since the upload before throws an error.
C27_ResizedTextureThrows ==
    \A t \in Textures : ImageResized(t) => Requested(t).threw # "none"

\* What the upload of such a texture does: nothing is thrown, no storage is
\* allocated, the storage keeps its size and texSubImage2D is issued with
\* the new image.
ResizedTextureIsWrittenInPlace ==
    \A t \in Textures :
        ImageResized(t) =>
            LET x == Requested(t)
                h == textureProperties[t].webglTexture IN
            /\ x.threw = "none"
            /\ x.tp[t].webglTexture = h
            /\ "texStorage2D" \notin Called(x.s.log)
            /\ "texSubImage2D" \in Called(x.s.log)
            /\ x.objs[h].size = glTextureObjects[h].size
            /\ x.objs[h].data # sourceVersions[textures[t].source]
            /\ x.tp[t].version = textures[t].version

\* Such an upload has been made: a texture is at its version while its
\* object holds data of an earlier version, or texels of two.
ResizedTextureWritten ==
    \E t \in Textures :
        /\ textureProperties[t].webglTexture \in TextureHandles
        /\ textureProperties[t].version = textures[t].version
        /\ sourceProperties[textures[t].source] = sourceVersions[textures[t].source]
        /\ glTextureObjects[textureProperties[t].webglTexture].size
              # imageByteLengths[textures[t].source]
        /\ glTextureObjects[textureProperties[t].webglTexture].data
              # sourceVersions[textures[t].source]
        /\ threw = "none"
        /\ issued # <<>>

\* C29: a texture that was flagged for update since its last upload is,
\* when requested, bound with a texture object that holds the current data
\* of its source.
C29_BoundTextureHoldsCurrentData ==
    \A t \in Textures :
        (/\ TextureNeedsUpload(textures[t].version, textureProperties[t].version)
         /\ HasTextureObject(t)) =>
            LET x == Requested(t)
                h == x.s.g.textures[TextureUnit]["TEXTURE_2D"] IN
            /\ h \in TextureHandles
            /\ h = x.tp[t].webglTexture
            /\ x.objs[h].data = sourceVersions[textures[t].source]

\* The same for a texture whose source was not uploaded since the texture
\* was flagged.
FirstOfSourceHoldsCurrentData ==
    \A t \in Textures :
        (/\ TextureNeedsUpload(textures[t].version, textureProperties[t].version)
         /\ HasTextureObject(t)
         /\ sourceVersions[textures[t].source] # sourceProperties[textures[t].source]) =>
            LET x == Requested(t)
                h == x.s.g.textures[TextureUnit]["TEXTURE_2D"] IN
            /\ h \in TextureHandles
            /\ h = x.tp[t].webglTexture
            /\ x.objs[h].data = sourceVersions[textures[t].source]

\* Two textures of one source with a texture object each, both flagged
\* since the upload of the second: the first was uploaded since, so the
\* request of the second uploads nothing and binds the data of an earlier
\* version of the source.
FlaggedBehindSharedUpload ==
    \E t1, t2 \in Textures :
        /\ textures[t1].source = textures[t2].source
        /\ textureProperties[t1].webglTexture \in TextureHandles
        /\ textureProperties[t2].webglTexture \in TextureHandles
        /\ textureProperties[t1].webglTexture # textureProperties[t2].webglTexture
        /\ textureProperties[t1].version = textures[t1].version
        /\ glTextureObjects[textureProperties[t1].webglTexture].data
              = sourceVersions[textures[t1].source]
        /\ TextureNeedsUpload(textures[t2].version, textureProperties[t2].version)
        /\ getTextureCacheKey(textures[t2]) = textureProperties[t2].cacheKey
        /\ sourceProperties[textures[t2].source] = sourceVersions[textures[t2].source]
        /\ Called(Requested(t2).s.log) \cap TextureUploads = {}
        /\ Requested(t2).objs[textureProperties[t2].webglTexture].data
              < sourceVersions[textures[t2].source]

\* The textures whose properties hold the texture object.
TextureHolders(handle) == {t \in Textures : textureProperties[t].webglTexture = handle}

\* C30: usedTimes of each cached texture object is the number of textures
\* whose properties hold it.
C30_UsedTimesCountsHolders ==
    \A s \in Sources, k \in CacheKeys :
        LET e == _sources[s].entries[k] IN
        e.texture # Undefined => e.usedTimes = Cardinality(TextureHolders(e.texture))

\* A texture object without holder is cached with usedTimes above zero: no
\* disposal will delete it.
UnheldTextureObjectKept ==
    \E s \in Sources, k \in CacheKeys :
        LET e == _sources[s].entries[k] IN
        /\ e.texture # Undefined
        /\ e.usedTimes > 0
        /\ TextureHolders(e.texture) = {}
        /\ glTextureObjects[e.texture].status = "live"

\* The gl functions that upload to a buffer object.
BufferUploads == {"bufferData", "bufferSubData"}

\* The number of uploads in a log.
UploadsIn(log) == Cardinality({i \in 1..Len(log) : log[i] \in BufferUploads})

\* C10: for an attribute whose buffer update creates, update called again
\* and again with no version bump uploads once, on the first call when no
\* buffer is cached, and not at all thereafter.
C10_UpdateUploadsOnce ==
    \A a \in Attributes :
        (~attributes[a].isGLBufferAttribute /\ bufferCount + 2 <= MaxBuffers) =>
            LET first == update(Y0, a, attributes[a])
                second == update([first EXCEPT !.log = <<>>, !.threw = "none"], a, attributes[a])
            IN /\ UploadsIn(second.log) = 0
               /\ ~buffers[a].present => UploadsIn(first.log) = 1

\* The attribute's array has another size than the one recorded with its
\* buffer, and its version was bumped since.
Resized(a) ==
    /\ ~attributes[a].isGLBufferAttribute
    /\ buffers[a].present
    /\ buffers[a].version < attributes[a].version
    /\ buffers[a].size # attributes[a].byteLength

\* C11: update of an attribute whose array changed size since its buffer was
\* created, and whose version was bumped, throws the resizing-not-supported
\* error; it calls no gl function and leaves the cached handle, size and
\* version, and the driver's buffers, as they were.
C11_ResizeFailsAndKeepsCache ==
    /\ \A a \in Attributes :
          Resized(a) =>
              LET y == update(Y0, a, attributes[a]) IN
              /\ y.threw = ResizingNotSupported
              /\ y.log = <<>>
              /\ y.buffers = buffers
              /\ y.objs = glBufferObjects
              /\ y.count = bufferCount
    /\ threw = ResizingNotSupported => issued = <<>>

\* update has just thrown the error for a resized attribute whose buffer
\* still holds the data of its first version.
C11_Witness ==
    /\ threw = ResizingNotSupported
    /\ \E a \in Attributes :
          /\ Resized(a)
          /\ buffers[a].size = 1
          /\ attributes[a].byteLength = 2
          /\ glBufferObjects[buffers[a].buffer].status = "live"
          /\ glBufferObjects[buffers[a].buffer].size = 1

----------------------------------------------------------------------------
\* The cache entries that record a buffer the cache created.
BufferHolders(buffer) ==
    {a \in Attributes : /\ buffers[a].present
                        /\ ~attributes[a].isGLBufferAttribute
                        /\ buffers[a].buffer = buffer}

BuffersRecordedOrDeleted ==
    \A buffer \in 1..bufferCount :
        IF glBufferObjects[buffer].status = "live"
        THEN Cardinality(BufferHolders(buffer)) = 1
        ELSE BufferHolders(buffer) = {}

\* C37: every buffer the cache has created is recorded in exactly one cache
\* entry or is deleted and recorded in none, also after createBuffer has
\* thrown on an unsupported data format; remove deletes the buffer of an
\* entry with one gl.deleteBuffer call.
C37_BuffersRecordedOrDeleted ==
    /\ BuffersRecordedOrDeleted
    /\ \A a \in Attributes :
          buffers[a].present => remove(Y0, a).log = <<"deleteBuffer">>

\* The same, when every array is of a supported type.
SupportedBuffersRecordedOrDeleted ==
    (\A a \in Attributes : arrayTypeToGL(attributes[a].arrayType) # "none"
                            \/ attributes[a].isGLBufferAttribute)
    => C37_BuffersRecordedOrDeleted

\* createBuffer has thrown on a Float64Array and the buffer it created is
\* live and in no cache entry.
UnrecordedBufferLeft ==
    /\ threw = "Unsupported buffer data format"
    /\ \E buffer \in 1..bufferCount :
          /\ glBufferObjects[buffer].status = "live"
          /\ BufferHolders(buffer) = {}

(***************************************************************************)
(* Render lists (WebGLRenderList, WebGLRenderLists) and render states      *)
(* (WebGLRenderStates). A render item is a pooled object; a bucket holds   *)
(* references to pooled items, here their positions in renderItems (the    *)
(* item of index i is renderItems[i + 1]). A material is referred to by    *)
(* its id, null by NullHandle; object, geometry and material ids start at  *)
(* 1. Array.prototype.sort is the stable sort of ECMAScript 2019.          *)
(***************************************************************************)

\* A comparator that looks at the depth before the renderOrder.
painterSortDepthFirst(a, b) ==
    IF a.groupOrder # b.groupOrder THEN a.groupOrder - b.groupOrder
    ELSE IF a.z # b.z THEN a.z - b.z
    ELSE IF a.renderOrder # b.renderOrder THEN a.renderOrder - b.renderOrder
    ELSE IF a.material # b.material THEN a.material - b.material
    ELSE a.id - b.id

\* painterSortStable(a, b)
painterSortStable(a, b) ==
    IF a.groupOrder # b.groupOrder THEN a.groupOrder - b.groupOrder
    ELSE IF a.renderOrder # b.renderOrder THEN a.renderOrder - b.renderOrder
    ELSE IF a.material # b.material THEN a.material - b.material
    ELSE IF a.z # b.z THEN a.z - b.z
    ELSE a.id - b.id

\* reversePainterSortStable(a, b)
reversePainterSortStable(a, b) ==
    IF a.groupOrder # b.groupOrder THEN a.groupOrder - b.groupOrder
    ELSE IF a.renderOrder # b.renderOrder THEN a.renderOrder - b.renderOrder
    ELSE IF a.z # b.z THEN b.z - a.z
    ELSE a.id - b.id

\* The comparator of a name.
Compare(compareFn, a, b) ==
    IF compareFn = "painterSortStable" THEN painterSortStable(a, b)
    ELSE reversePainterSortStable(a, b)

\* The place of x in the sorted array s by a sort that would put x before
\* the elements it compares equal to.
InsertAtBeforeEqual(s, items, compareFn, x) ==
    LET before == {j \in 1..Len(s) : Compare(compareFn, items[s[j]], items[x]) >= 0}
    IN IF before = {} THEN Len(s) + 1 ELSE CHOOSE j \in before : \A k \in before : j <= k

\* The place of x in the sorted array s: before the first element that
\* compares greater than x, after the elements it compares equal to.
InsertAt(s, items, compareFn, x) ==
    LET greater == {j \in 1..Len(s) : Compare(compareFn, items[s[j]], items[x]) > 0}
    IN IF greater = {} THEN Len(s) + 1 ELSE CHOOSE j \in greater : \A k \in greater : j <= k

\* array.sort(compareFn), for an array of references into items: a stable
\* sort, computed by insertion.
RECURSIVE ArraySort(_, _, _)
ArraySort(array, items, compareFn) ==
    IF array = <<>> THEN <<>>
    ELSE LET n == Len(array)
             s == ArraySort(SubSeq(array, 1, n - 1), items, compareFn)
             p == InsertAt(s, items, compareFn, array[n])
         IN SubSeq(s, 1, p - 1) \o <<array[n]>> \o SubSeq(s, p, Len(s))

\* new WebGLRenderList()
NewRenderList ==
    [renderItems |-> <<>>, renderItemsIndex |-> 0,
     opaque |-> <<>>, transmissive |-> <<>>, transparent |-> <<>>]

\* WebGLRenderList.init()
init(l) ==
    [l EXCEPT !.renderItemsIndex = 0, !.opaque = <<>>, !.transmissive = <<>>,
              !.transparent = <<>>]

\* getNextRenderItem(object, geometry, material, groupOrder, z, group); the
\* item returned is the one at position renderItemsIndex + 1 of the pool.
getNextRenderItem(l, object, geometry, material, groupOrder, z, group) ==
    LET renderItem == [id |-> object.id, object |-> object.id, geometry |-> geometry,
                       material |-> material.id, groupOrder |-> groupOrder,
                       renderOrder |-> object.renderOrder, z |-> z, group |-> group]
        p == l.renderItemsIndex + 1
    IN [l EXCEPT !.renderItems = IF p > Len(@) THEN Append(@, renderItem)
                                 ELSE [@ EXCEPT ![p] = renderItem],
                 !.renderItemsIndex = p]

\* The bucket of a material.
BucketOf(material) ==
    IF material.transmission THEN "transmissive"
    ELSE IF material.transparent THEN "transparent"
    ELSE "opaque"

\* push(object, geometry, material, groupOrder, z, group)
push(l, object, geometry, material, groupOrder, z, group) ==
    LET l1 == getNextRenderItem(l, object, geometry, material, groupOrder, z, group)
    IN [l1 EXCEPT ![BucketOf(material)] = Append(@, l1.renderItemsIndex)]

\* unshift(object, geometry, material, groupOrder, z, group)
unshift(l, object, geometry, material, groupOrder, z, group) ==
    LET l1 == getNextRenderItem(l, object, geometry, material, groupOrder, z, group)
    IN [l1 EXCEPT ![BucketOf(material)] = <<l1.renderItemsIndex>> \o @]

\* sort(customOpaqueSort, customTransparentSort) with no custom sort set
sort(l) ==
    [l EXCEPT
       !.opaque = IF Len(@) > 1
                  THEN ArraySort(@, l.renderItems, "painterSortStable") ELSE @,
       !.transmissive = IF Len(@) > 1
                        THEN ArraySort(@, l.renderItems, "reversePainterSortStable") ELSE @,
       !.transparent = IF Len(@) > 1
                       THEN ArraySort(@, l.renderItems, "reversePainterSortStable") ELSE @]

\* finish() of a list that nulls nothing.
finishKeeping(l) == l

\* finish(): from renderItemsIndex on, items are nulled until the first
\* item whose id is null already.
finish(l) ==
    [l EXCEPT !.renderItems =
        [p \in 1..Len(@) |->
            IF /\ p > l.renderItemsIndex
               /\ \A q \in (l.renderItemsIndex + 1)..p : @[q].id # NullHandle
            THEN [@[p] EXCEPT !.id = NullHandle, !.object = NullHandle,
                              !.geometry = NullHandle, !.material = NullHandle,
                              !.group = NullHandle]
            ELSE @[p]]]

\* WebGLRenderLists.get(scene, renderCallDepth) that hands out the first
\* list of the scene at every depth.
WebGLRenderLists_getShared(ls, scene, renderCallDepth) ==
    IF ls[scene] = <<>>
    THEN [lists |-> [ls EXCEPT ![scene] = <<NewRenderList>>], index |-> 1]
    ELSE [lists |-> ls, index |-> 1]

\* WebGLRenderLists.get(scene, renderCallDepth): the lists after the call
\* and the place, in the array of the scene, of the list returned. A scene
\* with no array yet has <<>>.
WebGLRenderLists_get(ls, scene, renderCallDepth) ==
    IF ls[scene] = <<>>
    THEN [lists |-> [ls EXCEPT ![scene] = <<NewRenderList>>], index |-> 1]
    ELSE IF renderCallDepth >= Len(ls[scene])
    THEN [lists |-> [ls EXCEPT ![scene] = Append(@, NewRenderList)],
          index |-> Len(ls[scene]) + 1]
    ELSE [lists |-> ls, index |-> renderCallDepth + 1]

\* new WebGLRenderState(): state.lightsArray
NewRenderState == [lightsArray |-> <<>>]

\* WebGLRenderStates.get(scene, renderCallDepth)
WebGLRenderStates_get(rs, scene, renderCallDepth) ==
    IF rs[scene] = <<>>
    THEN [renderStates |-> [rs EXCEPT ![scene] = <<NewRenderState>>], index |-> 1]
    ELSE IF renderCallDepth >= Len(rs[scene])
    THEN [renderStates |-> [rs EXCEPT ![scene] = Append(@, NewRenderState)],
          index |-> Len(rs[scene]) + 1]
    ELSE [renderStates |-> rs, index |-> renderCallDepth + 1]

(***************************************************************************)
(* WebGLRenderer.render(scene, camera), with one camera, sortObjects true, *)
(* no override material and no custom sort. A call is at one of three      *)
(* places where the application's callbacks run and may call render again: *)
(* scene.onBeforeRender (before the call takes its list and state), the    *)
(* onBeforeRender of the object about to be drawn, and scene.onAfterRender *)
(* (all draws made). What the call does between two such places is one     *)
(* step. The meshes of a scene are objects 1..NumObjects, in the order of  *)
(* the scene graph; which of them are visible is decided frame by frame.   *)
(***************************************************************************)

Scenes == 1..NumScenes
Objects == 1..NumObjects

\* The mesh the background adds to the list (a box or a plane).
BackgroundMesh == NumObjects + 1

\* The materials, by id: an odd id is an opaque material, an id that is
\* 2 modulo 4 a transparent one, a multiple of 4 a double-sided transmissive
\* one.
MaterialOf(m) ==
    [id |-> m,
     transmission |-> (m % 4 = 0),
     transparent |-> (m % 4 = 2),
     doubleSide |-> (m % 4 = 0)]

\* The object: objects later in the scene graph have lower renderOrder.
ObjectOf(o) == [id |-> o, renderOrder |-> BackgroundMesh - o]

\* The materials of an object: an odd object has an array of two, an opaque
\* and a transparent one, for the two groups of its geometry; an even object
\* has one transmissive material; the background mesh has an opaque one.
MaterialsOf(o) ==
    IF o = BackgroundMesh THEN <<2 * o + 1>>
    ELSE IF o % 2 = 1 THEN <<2 * o - 1, 2 * o>>
    ELSE <<2 * o>>

\* The depth projectObject computes for an object.
DepthOf(o) == o % 2

\* projectObject: the pushes for one mesh, one per group for an array of
\* materials (the i-th group has the i-th material), one with a null group
\* otherwise.
RECURSIVE projectMesh(_, _, _)
projectMesh(l, o, i) ==
    IF Len(MaterialsOf(o)) = 1
    THEN push(l, ObjectOf(o), o, MaterialOf(MaterialsOf(o)[1]), 0, DepthOf(o), NullHandle)
    ELSE IF i > Len(MaterialsOf(o)) THEN l
    ELSE projectMesh(push(l, ObjectOf(o), o, MaterialOf(MaterialsOf(o)[i]), 0, DepthOf(o), i),
                     o, i + 1)

\* projectObject(scene, camera, 0, sortObjects): the children from o on.
RECURSIVE projectObject(_, _, _)
projectObject(l, o, visible) ==
    IF o > NumObjects THEN l
    ELSE projectObject(IF o \in visible THEN projectMesh(l, o, 1) ELSE l, o + 1, visible)

\* The lights projectObject collects with pushLight: the light of the scene
\* is a child of the last object and is reached when that object is visible.
LightsOf(visible) == IF NumObjects \in visible THEN <<1>> ELSE <<>>

\* background.addToRenderList(currentRenderList, scene)
addToRenderList(l, background) ==
    IF background
    THEN unshift(l, ObjectOf(BackgroundMesh), BackgroundMesh,
                 MaterialOf(MaterialsOf(BackgroundMesh)[1]), 0, 0, NullHandle)
    ELSE l

\* What render leaves in the list it took: init, projectObject, finish, sort
\* and the background.
Projected(l, visible, background) ==
    addToRenderList(sort(finish(projectObject(init(l), 1, visible))), background)

\* The passes of a call in the order they are made: renderTransmissionPass
\* draws the opaque bucket and then the back sides of the double-sided
\* transmissive items into the transmission target, renderScene draws the
\* three buckets.
Passes == <<"transmission.opaque", "transmission.transmissive",
            "opaque", "transmissive", "transparent">>

\* The bucket a pass draws from.
PassBucket(pass) ==
    CASE pass = "transmission.opaque" -> "opaque"
      [] pass = "transmission.transmissive" -> "transmissive"
      [] OTHER -> pass

\* The items a pass draws, in the order it draws them.
PassItems(l, pass) ==
    CASE pass = "transmission.opaque" ->
           IF Len(l.transmissive) > 0 THEN l.opaque ELSE <<>>
      [] pass = "transmission.transmissive" ->
           SelectSeq(l.transmissive, LAMBDA r : MaterialOf(l.renderItems[r].material).doubleSide)
      [] OTHER -> l[pass]

\* The first pass of renderScene.
RenderScenePass == 3

\* The list a pass reads: renderTransmissionPass the buckets render took
\* from its list (lt), renderScene the list it is handed (ls).
PassList(lt, ls, k) == IF k < RenderScenePass THEN lt ELSE ls

\* The next draw at or after the i-th item of pass k; pass Len(Passes) + 1
\* when no draw is left.
RECURSIVE NextDraw(_, _, _, _)
NextDraw(lt, ls, k, i) ==
    IF k > Len(Passes) THEN [pass |-> k, i |-> 1]
    ELSE IF i <= Len(PassItems(PassList(lt, ls, k), Passes[k])) THEN [pass |-> k, i |-> i]
    ELSE NextDraw(lt, ls, k + 1, 1)

\* null, for currentRenderList and currentRenderState
NoRef == <<>>

\* The top of a stack, null for the empty stack.
Top(stack) == IF stack = <<>> THEN NoRef ELSE stack[Len(stack)]

\* The item the call is about to draw, when it is about to draw one.
NextRenderItem(call) ==
    LET renderList == IF call.renderList # NoRef THEN call.renderList ELSE currentRenderList
        l == PassList(lists[call.scene][call.list],
                      lists[renderList[1]][renderList[2]], call.pass)
    IN l.renderItems[PassItems(l, Passes[call.pass])[call.i]]

\* The callbacks of the application that call render: those of the scene
\* and the onBeforeRender of the first object.
CallbackRenders(call) ==
    IF call.pc = "onBeforeRender" \/ call.pass > Len(Passes) THEN TRUE
    ELSE NextRenderItem(call).object = 1

\* render(scene, camera) is entered, from the application or from a
\* callback of the call in flight; scene.onBeforeRender comes next.
Render(scene) ==
    /\ Len(renderCalls) < MaxRenderCalls
    /\ renderCalls # <<>> => CallbackRenders(renderCalls[Len(renderCalls)])
    /\ renderCalls' = Append(renderCalls,
          [scene |-> scene, pc |-> "onBeforeRender", list |-> 0, state |-> 0,
           visible |-> {}, background |-> FALSE, lights |-> <<>>,
           renderList |-> NoRef, pass |-> 1, i |-> 1, drawn |-> <<>>])
    /\ UNCHANGED <<lists, renderStates, renderListStack, renderStateStack,
                   currentRenderList, currentRenderState>>
    /\ UNCHANGED notRenderVars

\* render, from the return of scene.onBeforeRender to the first callback of
\* a draw: the call takes the state and the list of its depth, collects the
\* lights and the visible meshes, finishes and sorts the list and adds the
\* background.
Project(visible, background) ==
    /\ renderCalls # <<>>
    /\ LET n == Len(renderCalls)
           call == renderCalls[n]
           rs == WebGLRenderStates_get(renderStates, call.scene, Len(renderStateStack))
           ls == WebGLRenderLists_get(lists, call.scene, Len(renderListStack))
           l == Projected(ls.lists[call.scene][ls.index], visible, background)
           next == NextDraw(l, l, 1, 1)
       IN /\ call.pc = "onBeforeRender"
          /\ renderStates' = [rs.renderStates EXCEPT ![call.scene][rs.index] =
                                 [lightsArray |-> LightsOf(visible)]]
          /\ currentRenderState' = <<call.scene, rs.index>>
          /\ renderStateStack' = Append(renderStateStack, <<call.scene, rs.index>>)
          /\ lists' = [ls.lists EXCEPT ![call.scene][ls.index] = l]
          /\ currentRenderList' = <<call.scene, ls.index>>
          /\ renderListStack' = Append(renderListStack, <<call.scene, ls.index>>)
          /\ renderCalls' = [renderCalls EXCEPT ![n] =
                [@ EXCEPT !.pc = "renderObjects", !.list = ls.index, !.state = rs.index,
                          !.visible = visible, !.background = background,
                          !.lights = LightsOf(visible),
                          !.renderList = IF next.pass < RenderScenePass THEN NoRef
                                         ELSE <<call.scene, ls.index>>,
                          !.pass = next.pass, !.i = next.i]]
    /\ UNCHANGED notRenderVars

\* renderObject of the next item of the call in flight, from the return of
\* its onBeforeRender to the callback of the draw that follows.
RenderObject ==
    /\ renderCalls # <<>>
    /\ LET n == Len(renderCalls)
           call == renderCalls[n]
           lt == lists[call.scene][call.list]
           renderList == IF call.renderList # NoRef THEN call.renderList
                         ELSE currentRenderList
           ls == lists[renderList[1]][renderList[2]]
           l == PassList(lt, ls, call.pass)
           renderItem == PassItems(l, Passes[call.pass])[call.i]
           next == NextDraw(lt, ls, call.pass, call.i + 1)
       IN /\ call.pc = "renderObjects"
          /\ call.pass <= Len(Passes)
          /\ renderCalls' = [renderCalls EXCEPT ![n] =
                [@ EXCEPT !.drawn = Append(@, [pass |-> Passes[call.pass],
                                               renderItem |-> renderItem,
                                               object |-> l.renderItems[renderItem].object]),
                          !.renderList = IF next.pass < RenderScenePass THEN NoRef
                                         ELSE renderList,
                          !.pass = next.pass, !.i = next.i]]
    /\ UNCHANGED <<lists, renderStates, renderListStack, renderStateStack,
                   currentRenderList, currentRenderState>>
    /\ UNCHANGED notRenderVars

\* render, from the return of scene.onAfterRender to its own return: both
\* stacks are popped and the list and state of the caller are current again.
RenderReturn ==
    /\ renderCalls # <<>>
    /\ LET n == Len(renderCalls)
           call == renderCalls[n]
       IN /\ call.pc = "renderObjects"
          /\ call.pass > Len(Passes)
          /\ renderStateStack' = SubSeq(renderStateStack, 1, Len(renderStateStack) - 1)
          /\ currentRenderState' = Top(renderStateStack')
          /\ renderListStack' = SubSeq(renderListStack, 1, Len(renderListStack) - 1)
          /\ currentRenderList' = Top(renderListStack')
          /\ renderCalls' = SubSeq(renderCalls, 1, n - 1)
    /\ UNCHANGED <<lists, renderStates>>
    /\ UNCHANGED notRenderVars

InitRender ==
    /\ lists = [scene \in Scenes |-> <<>>]
    /\ renderStates = [scene \in Scenes |-> <<>>]
    /\ renderListStack = <<>>
    /\ renderStateStack = <<>>
    /\ currentRenderList = NoRef
    /\ currentRenderState = NoRef
    /\ renderCalls = <<>>

NextRender ==
    \/ \E scene \in Scenes : Render(scene)
    \/ \E visible \in SUBSET Objects, background \in BOOLEAN :
          Project(visible, background)
    \/ RenderObject
    \/ RenderReturn

\* render, from the return of scene.onBeforeRender to an error thrown while
\* projectObject traverses the scene (objects.update of the first visible
\* mesh, whose attribute changed size): the call has taken and pushed its
\* state and its list and initialised both; nothing catches the error in
\* render, so it ends every call in flight.
ProjectThrows ==
    /\ renderCalls # <<>>
    /\ Len(renderListStack) < MaxAborted
    /\ LET n == Len(renderCalls)
           call == renderCalls[n]
           rs == WebGLRenderStates_get(renderStates, call.scene, Len(renderStateStack))
           ls == WebGLRenderLists_get(lists, call.scene, Len(renderListStack))
           l == init(ls.lists[call.scene][ls.index])
       IN /\ call.pc = "onBeforeRender"
          /\ renderStates' = [rs.renderStates EXCEPT ![call.scene][rs.index] =
                                 [lightsArray |-> <<>>]]
          /\ currentRenderState' = <<call.scene, rs.index>>
          /\ renderStateStack' = Append(renderStateStack, <<call.scene, rs.index>>)
          /\ lists' = [ls.lists EXCEPT ![call.scene][ls.index] = l]
          /\ currentRenderList' = <<call.scene, ls.index>>
          /\ renderListStack' = Append(renderListStack, <<call.scene, ls.index>>)
          /\ renderCalls' = <<>>
    /\ UNCHANGED notRenderVars

\* render( scene, camera ) called by the application, not from a callback,
\* with calls that end in an error.
NextAbort ==
    \/ \E scene \in Scenes : renderCalls = <<>> /\ Render(scene)
    \/ \E visible \in SUBSET Objects, background \in BOOLEAN :
          Project(visible, background)
    \/ RenderObject
    \/ RenderReturn
    \/ ProjectThrows

\* compile(scene, camera) on r = [renderStates, renderStateStack,
\* currentRenderState]: the state of depth zero of the scene is initialised
\* and given the visible lights of the scene, pushed and popped, and no
\* state is current at the return. prepareMaterial gets the programs of the
\* materials; nothing is drawn.
compile(r, scene, visible) ==
    LET rs == WebGLRenderStates_get(r.renderStates, scene, 0)
        pushed == Append(r.renderStateStack, <<scene, rs.index>>)
    IN [renderStates |-> [rs.renderStates EXCEPT ![scene][rs.index] =
                             [lightsArray |-> LightsOf(visible)]],
        renderStateStack |-> SubSeq(pushed, 1, Len(pushed) - 1),
        currentRenderState |-> NoRef]

RenderStateRecord ==
    [renderStates |-> renderStates, renderStateStack |-> renderStateStack,
     currentRenderState |-> currentRenderState]

\* compile(scene, camera) called from a callback of the one call in flight.
Compile(scene, visible) ==
    /\ renderCalls # <<>>
    /\ Len(renderStateStack) = 1
    /\ CallbackRenders(renderCalls[Len(renderCalls)])
    /\ LET r == compile(RenderStateRecord, scene, visible)
       IN /\ renderStates' = r.renderStates
          /\ renderStateStack' = r.renderStateStack
          /\ currentRenderState' = r.currentRenderState
    /\ UNCHANGED <<lists, renderListStack, currentRenderList, renderCalls>>
    /\ UNCHANGED notRenderVars

\* The draw that follows a callback, no state being current: setProgram
\* reads currentRenderState.state.lights of null, and the TypeError ends the
\* call in flight.
SetProgramThrows ==
    /\ renderCalls # <<>>
    /\ currentRenderState = NoRef
    /\ LET call == renderCalls[Len(renderCalls)]
       IN call.pc = "renderObjects" /\ call.pass <= Len(Passes)
    /\ renderCalls' = <<>>
    /\ UNCHANGED <<lists, renderStates, renderListStack, renderStateStack,
                   currentRenderList, currentRenderState>>
    /\ UNCHANGED notRenderVars

\* render( scene, camera ) called by the application, with callbacks that
\* call compile.
NextCallback ==
    \/ \E scene \in Scenes : renderCalls = <<>> /\ Render(scene)
    \/ \E visible \in SUBSET Objects, background \in BOOLEAN : Project(visible, background)
    \/ currentRenderState # NoRef /\ RenderObject
    \/ RenderReturn
    \/ \E scene \in Scenes, visible \in SUBSET Objects : Compile(scene, visible)
    \/ SetProgramThrows

----------------------------------------------------------------------------
(***************************************************************************)
(* Render lists and render states: the properties checked.                 *)
(***************************************************************************)

\* The calls in flight that have taken their list and state, outermost first.
Acquired == SelectSeq(renderCalls, LAMBDA call : call.pc # "onBeforeRender")

\* The list and the state a call took still hold what the call put there:
\* the buckets, the pooled items in use and the lights collected.
HoldsOwn(call) ==
    LET l == lists[call.scene][call.list]
        own == Projected(NewRenderList, call.visible, call.background)
    IN /\ l.opaque = own.opaque
       /\ l.transmissive = own.transmissive
       /\ l.transparent = own.transparent
       /\ l.renderItemsIndex = own.renderItemsIndex
       /\ SubSeq(l.renderItems, 1, l.renderItemsIndex) = own.renderItems
       /\ renderStates[call.scene][call.state].lightsArray = call.lights

\* C12: the render calls in flight have pairwise distinct lists and pairwise
\* distinct states, each still holding what its call collected, whatever the
\* nested calls did; the two stacks hold the lists and states of the calls
\* in flight, in order, and the current list and state are those of the
\* innermost call (null when none is in flight), so they are the parent's
\* again, at the parent's depth, when a nested call has returned.
C12_NestedCallsKeepApart ==
    /\ \A i, j \in 1..Len(Acquired) :
          i # j => /\ <<Acquired[i].scene, Acquired[i].list>> # <<Acquired[j].scene, Acquired[j].list>>
                   /\ <<Acquired[i].scene, Acquired[i].state>> # <<Acquired[j].scene, Acquired[j].state>>
    /\ \A i \in 1..Len(Acquired) : HoldsOwn(Acquired[i])
    /\ renderListStack = [i \in 1..Len(Acquired) |-> <<Acquired[i].scene, Acquired[i].list>>]
    /\ renderStateStack = [i \in 1..Len(Acquired) |-> <<Acquired[i].scene, Acquired[i].state>>]
    /\ currentRenderList = Top(renderListStack)
    /\ currentRenderState = Top(renderStateStack)

\* A call nested in the draw of an object of its parent has made all its
\* draws, of other items and with other lights than the parent's, and the
\* parent, half way through its own draws, has its list and lights intact.
C12_Witness ==
    /\ Len(renderCalls) = 2
    /\ LET parent == renderCalls[1]
           nested == renderCalls[2]
       IN /\ parent.pc = "renderObjects" /\ nested.pc = "renderObjects"
          /\ parent.drawn # <<>> /\ parent.pass <= Len(Passes)
          /\ nested.drawn # <<>> /\ nested.pass > Len(Passes)
          /\ parent.visible # nested.visible
          /\ parent.lights # nested.lights
          /\ parent.scene = nested.scene
          /\ HoldsOwn(parent)

\* The place of a bucket in the order of the passes.
BucketRank(bucket) ==
    CASE bucket = "opaque" -> 1 [] bucket = "transmissive" -> 2 [] OTHER -> 3

\* The draws a call made in one pass.
DrawnIn(call, pass) == SelectSeq(call.drawn, LAMBDA d : d.pass = pass)

\* Within every pass the items were drawn in the order of the bucket.
DrawnInBucketOrder(call) ==
    \A k \in 1..Len(Passes) :
        LET d == DrawnIn(call, Passes[k])
            items == PassItems(lists[call.scene][call.list], Passes[k])
        IN /\ Len(d) <= Len(items)
           /\ \A i \in 1..Len(d) : d[i].renderItem = items[i]

\* C13: within one render call the items of a bucket are drawn in the order
\* of the bucket, and every draw of an opaque item precedes every draw of a
\* transmissive item, which precedes every draw of a transparent item.
C13_OpaqueThenTransmissiveThenTransparent ==
    \A n \in 1..Len(renderCalls) :
        LET call == renderCalls[n] IN
        call.pc = "renderObjects" =>
            /\ DrawnInBucketOrder(call)
            /\ \A i, j \in 1..Len(call.drawn) :
                  i < j => BucketRank(PassBucket(call.drawn[i].pass))
                              <= BucketRank(PassBucket(call.drawn[j].pass))

\* C16: in every list, after finish() (and after the background was added
\* to the list that finish() had left), every pooled item at or beyond the
\* fill pointer has null id, object, geometry, material and group.
C16_UnusedItemsAreNull ==
    \A scene \in Scenes : \A n \in 1..Len(lists[scene]) :
        LET l == lists[scene][n] IN
        \A p \in (l.renderItemsIndex + 1)..Len(l.renderItems) :
            /\ l.renderItems[p].id = NullHandle
            /\ l.renderItems[p].object = NullHandle
            /\ l.renderItems[p].geometry = NullHandle
            /\ l.renderItems[p].material = NullHandle
            /\ l.renderItems[p].group = NullHandle

\* A frame of one item, the background added after finish(), in a list
\* whose pool held four items in an earlier frame.
C16_Witness ==
    \E scene \in Scenes : \E n \in 1..Len(lists[scene]) :
        LET l == lists[scene][n] IN
        /\ Len(l.renderItems) = 4
        /\ l.renderItemsIndex = 1
        /\ l.renderItems[1].object = BackgroundMesh
        /\ l.renderItems[2].id = NullHandle

----------------------------------------------------------------------------
\* C31: when no render call is in flight, after calls that returned and
\* calls that an error ended, both stacks are empty and no list and no
\* state is current, so the next call takes the list and the state of
\* depth zero.
C31_AbortedCallLeavesNoDepth ==
    renderCalls = <<>> =>
        /\ renderListStack = <<>>
        /\ renderStateStack = <<>>
        /\ currentRenderList = NoRef
        /\ currentRenderState = NoRef

\* No call is in flight, the list and the state of a call that an error
\* ended are on the stacks and current, and a call made since took the list
\* and the state of depth one and returned.
AbortedDepthKept ==
    /\ renderCalls = <<>>
    /\ Len(renderListStack) = 1
    /\ Len(renderStateStack) = 1
    /\ currentRenderList = renderListStack[1]
    /\ currentRenderState = renderStateStack[1]
    /\ \E scene \in Scenes :
          /\ Len(lists[scene]) = 2
          /\ Len(renderStates[scene]) = 2

\* A call is in flight with its state current, at the callback of a draw.
InFlightAtCallback ==
    /\ renderCalls # <<>>
    /\ currentRenderState # NoRef
    /\ LET call == renderCalls[Len(renderCalls)]
       IN call.pc = "renderObjects" /\ call.pass <= Len(Passes)

\* C33: compile() called from a callback of a render call in flight leaves
\* the state of the call as it was, lights included, and current at the
\* return.
C33_CompileKeepsRenderState ==
    \A scene \in Scenes, visible \in SUBSET Objects :
        InFlightAtCallback =>
            LET r == compile(RenderStateRecord, scene, visible)
                state == currentRenderState
            IN /\ r.currentRenderState = currentRenderState
               /\ r.renderStates[state[1]][state[2]] = renderStates[state[1]][state[2]]

\* compile() leaves the stack of render states as it was, and the states of
\* the other scenes and of the other depths.
CompileKeepsOtherStates ==
    \A scene \in Scenes, visible \in SUBSET Objects :
        LET r == compile(RenderStateRecord, scene, visible)
        IN /\ r.renderStateStack = renderStateStack
           /\ \A other \in Scenes :
                 \A depth \in 1..Len(renderStates[other]) :
                     other # scene \/ depth # 1 =>
                         r.renderStates[other][depth] = renderStates[other][depth]

\* A callback of the call in flight has called compile(): no state is
\* current while the state of the call is on the stack, and the lights of
\* that state are no longer those the call collected.
CompiledInFlight ==
    /\ renderCalls # <<>>
    /\ currentRenderState = NoRef
    /\ Len(renderStateStack) = 1
    /\ LET call == renderCalls[Len(renderCalls)]
           state == renderStateStack[1]
       IN /\ call.pc = "renderObjects"
          /\ call.pass <= Len(Passes)
          /\ renderStates[state[1]][state[2]].lightsArray # call.lights

(***************************************************************************)
(* WebGLRenderList.sort() on its own: a bucket of any items, sorted, and   *)
(* sorted again. sortInput is the pool, in the order the items were        *)
(* pushed; sortOutput is the bucket after sort(), as places in the pool.   *)
(***************************************************************************)

\* The sort keys of the items.
SortItems ==
    [groupOrder : 0..1, renderOrder : 0..2, material : 1..2, z : 0..1, id : 1..2]

\* The pools of at most MaxSortItems items.
SortInputs == UNION {[1..n -> SortItems] : n \in 0..MaxSortItems}

Buckets == {"opaque", "transmissive", "transparent"}

\* A list whose bucket holds array, references into the pool items.
ListOf(items, bucket, array) ==
    [NewRenderList EXCEPT !.renderItems = items, !.renderItemsIndex = Len(items),
                          ![bucket] = array]

\* list.sort() of a list whose bucket holds the items in the order they
\* were pushed.
Sort(bucket) ==
    /\ sortKind = "none"
    /\ sortOutput' = sort(ListOf(sortInput, bucket, [i \in 1..Len(sortInput) |-> i]))[bucket]
    /\ sortKind' = bucket
    /\ UNCHANGED sortInput
    /\ UNCHANGED notSortVars

\* list.sort() again, of the list as the sort before left it.
SortAgain ==
    /\ sortKind # "none"
    /\ sortOutput' = sort(ListOf(sortInput, sortKind, sortOutput))[sortKind]
    /\ UNCHANGED <<sortInput, sortKind>>
    /\ UNCHANGED notSortVars

InitSort ==
    /\ sortInput \in SortInputs
    /\ sortOutput = <<>>
    /\ sortKind = "none"

NextSort ==
    \/ \E bucket \in Buckets : Sort(bucket)
    \/ SortAgain

\* The comparator sort() uses for a bucket.
ComparatorOf(bucket) ==
    IF bucket = "opaque" THEN "painterSortStable" ELSE "reversePainterSortStable"

\* The keys a bucket is to be ordered by, first key first.
SortKey(bucket, item) ==
    IF bucket = "opaque"
    THEN <<item.groupOrder, item.renderOrder, item.material, item.z>>
    ELSE <<item.groupOrder, item.renderOrder, 0 - item.z>>

\* k1 is before k2, or equal to it, in the lexicographic order.
LexLeq(k1, k2) ==
    \/ k1 = k2
    \/ \E p \in 1..Len(k1) : /\ k1[p] < k2[p]
                             /\ \A q \in 1..(p - 1) : k1[q] = k2[q]

\* The input is the scenario: groupOrder 0, 0, 1 and renderOrder 2, 1, 0.
Scenario ==
    /\ Len(sortInput) = 3
    /\ <<sortInput[1].groupOrder, sortInput[2].groupOrder, sortInput[3].groupOrder>> = <<0, 0, 1>>
    /\ <<sortInput[1].renderOrder, sortInput[2].renderOrder, sortInput[3].renderOrder>> = <<2, 1, 0>>

\* C14: after sort() a bucket holds the items it held, ordered by groupOrder,
\* then renderOrder, then material id and depth ascending (opaque) or depth
\* descending (transmissive, transparent); opaque items with groupOrder
\* 0, 0, 1 and renderOrder 2, 1, 0 come out second, first, third.
C14_SortedByPolicy ==
    sortKind # "none" =>
        /\ Len(sortOutput) = Len(sortInput)
        /\ {sortOutput[i] : i \in 1..Len(sortOutput)} = 1..Len(sortInput)
        /\ \A i, j \in 1..Len(sortOutput) :
              i < j => LexLeq(SortKey(sortKind, sortInput[sortOutput[i]]),
                              SortKey(sortKind, sortInput[sortOutput[j]]))
        /\ (sortKind = "opaque" /\ Scenario) => sortOutput = <<2, 1, 3>>

\* The opaque bucket of the scenario, sorted.
C14_Witness ==
    /\ sortKind = "opaque"
    /\ Scenario
    /\ sortOutput = <<2, 1, 3>>

----------------------------------------------------------------------------
(***************************************************************************)
(* Viewport and scissor of the renderer (setViewport, setScissor,          *)
(* setScissorTest, setSize, setPixelRatio, setRenderTarget).               *)
(*                                                                         *)
(* renderer is the record of the renderer's private variables and s, the   *)
(* state tracker with the driver as the tracker's setters take them. A     *)
(* Vector4 is <<x, y, z, w>>. A pixel ratio is a number of halves (3 is    *)
(* the ratio 1.5), so a vector multiplied by it is held in halves until    *)
(* round() or floor() makes integers of it. No XR session is presenting.   *)
(* A render target has its own framebuffer, already set up, and is neither *)
(* a cube nor a 3D target.                                                 *)
(***************************************************************************)
PixelRatios == 1..(2 * MaxPixelRatio)
Extents == 1..MaxExtent
Offsets == 0..MaxOffset
RenderTargets == 1..NumRenderTargets

\* The rectangles the application sets: squares at any offset from the left.
ViewRects == {<<x, 0, e, e>> : x \in Offsets, e \in Extents}

\* renderTarget.viewport and renderTarget.scissor: RenderTarget's constructor
\* makes both ( 0, 0, width, height ); its scissorTest is false.
TargetRect(renderTarget) == <<0, 0, renderTarget, renderTarget>>

\* properties.get( renderTarget ).__webglFramebuffer
FramebufferOf(renderTarget) == renderTarget

\* Vector4.multiplyScalar( _pixelRatio ), in halves.
multiplyScalar(v, pixelRatio) == [i \in DOMAIN v |-> v[i] * pixelRatio]

\* Vector4.round() of a vector in halves: Math.round rounds a half up.
round(halves) == [i \in DOMAIN halves |-> (halves[i] + 1) \div 2]

\* Vector4.floor() of a vector in halves.
floor(halves) == [i \in DOMAIN halves |-> halves[i] \div 2]

\* The gl calls of one call of the renderer are logged from empty.
Entered(r) == [r EXCEPT !.s.log = <<>>]

\* setViewport( x, y, width, height )
setViewport(r, v) ==
    LET current == round(multiplyScalar(v, r.pixelRatio)) IN
    [Entered(r) EXCEPT !.viewport = v,
                      !.currentViewport = current,
                      !.s = viewport(@, current)]

\* setScissor( x, y, width, height )
setScissor(r, v) ==
    LET current == round(multiplyScalar(v, r.pixelRatio)) IN
    [Entered(r) EXCEPT !.scissor = v,
                      !.currentScissor = current,
                      !.s = scissor(@, current)]

\* setScissorTest( boolean )
setRendererScissorTest(r, boolean) ==
    [Entered(r) EXCEPT !.scissorTest = boolean,
                      !.s = setScissorTest(@, boolean)]

\* setSize( width, height )
setSize(r, width, height) ==
    setViewport([r EXCEPT !.width = width, !.height = height],
                <<0, 0, width, height>>)

\* setPixelRatio( value )
setPixelRatio(r, value) ==
    setSize([r EXCEPT !.pixelRatio = value], r.width, r.height)

\* setRenderTarget( renderTarget )
setRenderTarget(r, renderTarget) ==
    LET r1 == [Entered(r) EXCEPT !.currentRenderTarget = renderTarget]
        r2 == IF renderTarget # NullHandle
              THEN [r1 EXCEPT !.currentViewport = TargetRect(renderTarget),
                              !.currentScissor = TargetRect(renderTarget),
                              !.currentScissorTest = FALSE]
              ELSE [r1 EXCEPT
                      !.currentViewport = floor(multiplyScalar(r1.viewport, r1.pixelRatio)),
                      !.currentScissor = floor(multiplyScalar(r1.scissor, r1.pixelRatio)),
                      !.currentScissorTest = r1.scissorTest]
        framebuffer == IF renderTarget # NullHandle
                       THEN FramebufferOf(renderTarget) ELSE NullHandle
        s1 == bindFramebuffer(r2.s, "FRAMEBUFFER", framebuffer)
        s2 == viewport(s1, r2.currentViewport)
        s3 == scissor(s2, r2.currentScissor)
    IN  [r2 EXCEPT !.s = setScissorTest(s3, r2.currentScissorTest)]

\* The renderer as its constructor leaves it, on a canvas of Canvas' size.
RendererConstructed ==
    [width |-> Canvas[3], height |-> Canvas[4], pixelRatio |-> 2,
     viewport |-> Canvas, scissor |-> Canvas, scissorTest |-> FALSE,
     currentRenderTarget |-> NullHandle,
     currentViewport |-> <<0, 0, 0, 0>>, currentScissor |-> <<0, 0, 0, 0>>,
     currentScissorTest |-> FALSE,
     s |-> TrackerConstructed]

SetViewport(v) ==
    /\ renderer' = setViewport(renderer, v)
    /\ UNCHANGED notViewVars

SetScissor(v) ==
    /\ renderer' = setScissor(renderer, v)
    /\ UNCHANGED notViewVars

SetScissorTest(boolean) ==
    /\ renderer' = setRendererScissorTest(renderer, boolean)
    /\ UNCHANGED notViewVars

SetSize(width, height) ==
    /\ renderer' = setSize(renderer, width, height)
    /\ UNCHANGED notViewVars

SetPixelRatio(value) ==
    /\ renderer' = setPixelRatio(renderer, value)
    /\ UNCHANGED notViewVars

SetRenderTarget(renderTarget) ==
    /\ renderer' = setRenderTarget(renderer, renderTarget)
    /\ UNCHANGED notViewVars

InitView == renderer = RendererConstructed

NextView ==
    \/ \E v \in ViewRects : SetViewport(v)
    \/ \E v \in ViewRects : SetScissor(v)
    \/ \E boolean \in BOOLEAN : SetScissorTest(boolean)
    \/ \E width \in Extents, height \in Extents : SetSize(width, height)
    \/ \E value \in PixelRatios : SetPixelRatio(value)
    \/ \E renderTarget \in {NullHandle} \cup RenderTargets :
          SetRenderTarget(renderTarget)

----------------------------------------------------------------------------
(***************************************************************************)
(* Viewport and scissor: the properties checked.                           *)
(***************************************************************************)
\* The rectangles applied to the driver.
Applied(r) == <<r.s.g.viewport, r.s.g.scissor>>

\* Binding a render target and unbinding it.
BindThenUnbind(r, renderTarget) ==
    setRenderTarget(setRenderTarget(r, renderTarget), NullHandle)

\* C20: binding a render target, drawing (a draw sets neither rectangle),
\* then unbinding with setRenderTarget(null) leaves the driver with the
\* viewport and the scissor it had before the binding, for every rectangle
\* and every pixel ratio.
C20_UnbindRestoresViewport ==
    renderer.currentRenderTarget = NullHandle
        => \A renderTarget \in RenderTargets :
              Applied(BindThenUnbind(renderer, renderTarget)) = Applied(renderer)

\* The same of the rectangles set at the pixel ratio in force, when nothing
\* of them is a half of a pixel: there floor() and round() agree.
WholePixels(r) ==
    /\ \A i \in 1..4 : (r.viewport[i] * r.pixelRatio) % 2 = 0
    /\ \A i \in 1..4 : (r.scissor[i] * r.pixelRatio) % 2 = 0

UnbindRestoresWholePixels ==
    /\ renderer.currentRenderTarget = NullHandle
    /\ WholePixels(renderer)
    /\ Applied(renderer) = <<round(multiplyScalar(renderer.viewport, renderer.pixelRatio)),
                             round(multiplyScalar(renderer.scissor, renderer.pixelRatio))>>
    => \A renderTarget \in RenderTargets :
          Applied(BindThenUnbind(renderer, renderTarget)) = Applied(renderer)

\* A viewport at an odd offset under the ratio 1.5 was applied, rounded up.
HalfPixelApplied ==
    /\ renderer.currentRenderTarget = NullHandle
    /\ renderer.pixelRatio = 3
    /\ renderer.viewport = <<1, 0, 1, 1>>
    /\ renderer.s.g.viewport = <<2, 0, 2, 2>>

----------------------------------------------------------------------------
(***************************************************************************)
(* Program selection of a draw: getParameters and getProgramCacheKey of    *)
(* WebGLPrograms, the shader cache (WebGLShaderCache), the shader text of  *)
(* WebGLProgram, and setProgram / getProgram / material disposal of the    *)
(* renderer.                                                               *)
(*                                                                         *)
(* drawing is the record of the state these read and write: the materials, *)
(* renderer.toneMapping, the shader cache, the program cache, the shader   *)
(* text each program was compiled from, and properties.get(material).      *)
(* A material is a MeshToonMaterial, a PointsMaterial or a ShaderMaterial  *)
(* with its name, precision and the other properties at their defaults;    *)
(* an object is a Points whose geometry has a uv attribute or has none.    *)
(* There are no lights, no fog, no environment and no clipping planes, the *)
(* canvas is the render target and the output colour space is sRGB.        *)
(***************************************************************************)
DrawMaterials == 1..NumDrawMaterials
DrawObjects == 1..NumDrawObjects

\* geometry.attributes.uv of the object's geometry is defined
HasUv(object) == object % 2 = 1

\* The source texts of custom shaders.
VertexCodes == {"void main() { A }", "void main() { B }"}
FragmentCode == "void main() { F }"

\* material.defines of a ShaderMaterial as the pairs of for ( name in defines ).
DefineSets == {<<<<"N", "1">>, <<"M", "2">>>>, <<<<"N", "1,M,2">>>>}

ToneMappings == {"NoToneMapping", "LinearToneMapping"}

MaterialKinds ==
    {[type |-> "MeshToonMaterial", map |-> FALSE, gradientMap |-> g,
      vertexShader |-> "", fragmentShader |-> "", defines |-> <<>>, version |-> 0] :
        g \in BOOLEAN}
    \cup
    {[type |-> "PointsMaterial", map |-> b, gradientMap |-> FALSE,
      vertexShader |-> "", fragmentShader |-> "", defines |-> <<>>, version |-> 0] :
        b \in BOOLEAN}
    \cup
    {[type |-> "ShaderMaterial", map |-> FALSE, gradientMap |-> FALSE,
      vertexShader |-> c, fragmentShader |-> FragmentCode, defines |-> ds, version |-> 0] :
        c \in VertexCodes, ds \in DefineSets}

\* shaderIDs[ material.type ]; "" is undefined
shaderIDs(type) ==
    CASE type = "MeshToonMaterial" -> "toon"
      [] type = "PointsMaterial" -> "points"
      [] OTHER -> ""

\* ShaderLib[ shaderID ]
ShaderLib(shaderID) ==
    [vertexShader |-> "<" \o shaderID \o "_vert>",
     fragmentShader |-> "<" \o shaderID \o "_frag>"]

\* String( n ) of a non-negative integer
RECURSIVE NumberString(_)
NumberString(n) ==
    LET digit == <<"0", "1", "2", "3", "4", "5", "6", "7", "8", "9">>[(n % 10) + 1] IN
    IF n < 10 THEN digit ELSE NumberString(n \div 10) \o digit

\* String( b ) of a boolean
BooleanString(b) == IF b THEN "true" ELSE "false"

\* Array.prototype.join( separator ) of an array of strings
RECURSIVE Join(_, _)
Join(array, separator) ==
    IF array = <<>> THEN ""
    ELSE IF Len(array) = 1 THEN array[1]
    ELSE array[1] \o separator \o Join(Tail(array), separator)

\* array.filter( filterEmptyLine )
RECURSIVE FilterEmptyLine(_)
FilterEmptyLine(array) ==
    IF array = <<>> THEN <<>>
    ELSE IF Head(array) = "" THEN FilterEmptyLine(Tail(array))
    ELSE <<Head(array)>> \o FilterEmptyLine(Tail(array))

\* ---- WebGLShaderCache: sc = [stages, materialCache, id] ----
NoStage == [id |-> Undefined, usedTimes |-> 0]
Codes == VertexCodes \cup {FragmentCode}

ShaderCacheConstructed ==
    [stages |-> [code \in Codes |-> NoStage],
     materialCache |-> [m \in DrawMaterials |-> {}],
     id |-> 0]

\* _getShaderStage( code ) that makes a new stage for every call.
ShaderStageAlwaysNew(sc, code) ==
    [sc EXCEPT !.stages[code] = [id |-> sc.id, usedTimes |-> @.usedTimes], !.id = @ + 1]

\* _getShaderStage( code ): the cache it leaves; the stage is stages[code]
ShaderStage(sc, code) ==
    IF sc.stages[code] = NoStage
    THEN [sc EXCEPT !.stages[code] = [id |-> sc.id, usedTimes |-> 0], !.id = @ + 1]
    ELSE sc

\* materialShaders.has( stage ) === false: add the stage, usedTimes ++
AddStage(sc, m, code) ==
    IF code \notin sc.materialCache[m]
    THEN [sc EXCEPT !.materialCache[m] = @ \cup {code}, !.stages[code].usedTimes = @ + 1]
    ELSE sc

\* update( material ) that counts a use for each call.
ShaderCacheUpdateCounting(sc, m, material) ==
    LET sc1 == ShaderStage(ShaderStage(sc, material.vertexShader), material.fragmentShader) IN
    [sc1 EXCEPT !.materialCache[m] = @ \cup {material.vertexShader, material.fragmentShader},
                !.stages[material.vertexShader].usedTimes = @ + 1,
                !.stages[material.fragmentShader].usedTimes = @ + 1]

\* WebGLShaderCache.update( material )
ShaderCacheUpdate(sc, m, material) ==
    LET sc1 == ShaderStage(ShaderStage(sc, material.vertexShader), material.fragmentShader) IN
    AddStage(AddStage(sc1, m, material.vertexShader), m, material.fragmentShader)

\* WebGLShaderCache.remove( material ); the order of the stages is immaterial
RECURSIVE RemoveStages(_, _)
RemoveStages(stages, codes) ==
    IF codes = {} THEN stages
    ELSE LET code == CHOOSE c \in codes : TRUE
             n == stages[code].usedTimes - 1 IN
         RemoveStages([stages EXCEPT ![code] =
                          IF n = 0 THEN NoStage ELSE [@ EXCEPT !.usedTimes = n]],
                      codes \ {code})

ShaderCacheRemove(sc, m) ==
    [sc EXCEPT !.stages = RemoveStages(@, sc.materialCache[m]),
               !.materialCache[m] = {}]

\* ---- WebGLPrograms ----
\* getChannel( value ) of a texture on channel 0
getChannel == "uv"

\* material.customProgramCacheKey() of Material: onBeforeCompile.toString()
CustomProgramCacheKey == "onBeforeCompile(){}"

\* getParameters( material, lights, shadows, scene, object ): the drawing
\* state it leaves (the shader cache) and the parameters.
getParameters(d, m, object) ==
    LET material == d.materials[m]
        shaderID == shaderIDs(material.type)
        sc == IF shaderID # "" THEN d.customShaders
              ELSE ShaderStage(ShaderStage(
                       ShaderCacheUpdate(d.customShaders, m, material),
                       material.vertexShader), material.fragmentShader)
        HAS_MAP == material.map
    IN  [d |-> [d EXCEPT !.customShaders = sc],
         parameters |->
           [shaderID |-> shaderID,
            shaderType |-> material.type,
            vertexShader |-> IF shaderID # "" THEN ShaderLib(shaderID).vertexShader
                             ELSE material.vertexShader,
            fragmentShader |-> IF shaderID # "" THEN ShaderLib(shaderID).fragmentShader
                               ELSE material.fragmentShader,
            defines |-> material.defines,
            customVertexShaderID |-> IF shaderID # "" THEN Undefined
                                     ELSE sc.stages[material.vertexShader].id,
            customFragmentShaderID |-> IF shaderID # "" THEN Undefined
                                       ELSE sc.stages[material.fragmentShader].id,
            isRawShaderMaterial |-> FALSE,
            precision |-> "highp",
            outputColorSpace |-> "srgb",
            map |-> HAS_MAP,
            mapUv |-> IF HAS_MAP THEN getChannel ELSE "false",
            gradientMap |-> material.gradientMap,
            pointsUvs |-> HasUv(object) /\ HAS_MAP,
            toneMapping |-> d.toneMapping,
            customProgramCacheKey |-> CustomProgramCacheKey]]

\* for ( const name in parameters.defines ) array.push( name, defines[ name ] )
RECURSIVE PushDefines(_)
PushDefines(defines) ==
    IF defines = <<>> THEN <<>>
    ELSE <<Head(defines)[1], Head(defines)[2]>> \o PushDefines(Tail(defines))

\* getProgramCacheKeyParameters( array, parameters ): the parameters modelled
getProgramCacheKeyParameters(parameters) ==
    <<parameters.precision, parameters.outputColorSpace, parameters.mapUv,
      parameters.toneMapping>>

\* getProgramCacheKeyBooleans( array, parameters ): the two masks
getProgramCacheKeyBooleans(parameters) ==
    <<NumberString(0),
      NumberString(IF parameters.pointsUvs THEN 2^17 ELSE 0)>>

\* getProgramCacheKey( parameters )
getProgramCacheKey(parameters) ==
    Join((IF parameters.shaderID # ""
          THEN <<parameters.shaderID>>
          ELSE <<NumberString(parameters.customVertexShaderID),
                 NumberString(parameters.customFragmentShaderID)>>)
         \o PushDefines(parameters.defines)
         \o (IF ~parameters.isRawShaderMaterial
             THEN getProgramCacheKeyParameters(parameters)
                  \o getProgramCacheKeyBooleans(parameters)
                  \o <<"srgb">>
             ELSE <<>>)
         \o <<parameters.customProgramCacheKey>>,
         ",")

\* ---- WebGLProgram ----
\* generateDefines( defines )
RECURSIVE DefineChunks(_)
DefineChunks(defines) ==
    IF defines = <<>> THEN <<>>
    ELSE <<"#define " \o Head(defines)[1] \o " " \o Head(defines)[2]>>
         \o DefineChunks(Tail(defines))

generateDefines(defines) == Join(DefineChunks(defines), "\n")

\* getToneMappingFunction( 'toneMapping', toneMapping )
getToneMappingFunction(toneMapping) ==
    "vec3 toneMapping( vec3 color ) { return " \o
    (CASE toneMapping = "LinearToneMapping" -> "Linear"
       [] toneMapping = "ReinhardToneMapping" -> "Reinhard"
       [] OTHER -> "Linear") \o
    "ToneMapping( color ); }"

\* The vertex and fragment shader text WebGLProgram compiles (vertexGlsl,
\* fragmentGlsl) of a material that is no RawShaderMaterial, with the lines
\* of the parameters modelled.
ShaderText(parameters) ==
    LET customDefines == generateDefines(parameters.defines)
        prefixVertex == Join(FilterEmptyLine(
            <<"#define SHADER_TYPE " \o parameters.shaderType,
              customDefines,
              IF parameters.map THEN "#define USE_MAP" ELSE "",
              IF parameters.mapUv # "false" THEN "#define MAP_UV " \o parameters.mapUv ELSE "",
              IF parameters.pointsUvs THEN "#define USE_POINTS_UV" ELSE "">>), "\n")
        prefixFragment == Join(FilterEmptyLine(
            <<"#define SHADER_TYPE " \o parameters.shaderType,
              customDefines,
              IF parameters.map THEN "#define USE_MAP" ELSE "",
              IF parameters.pointsUvs THEN "#define USE_POINTS_UV" ELSE "",
              IF parameters.gradientMap THEN "#define USE_GRADIENTMAP" ELSE "",
              IF parameters.toneMapping # "NoToneMapping" THEN "#define TONE_MAPPING" ELSE "",
              IF parameters.toneMapping # "NoToneMapping"
              THEN getToneMappingFunction(parameters.toneMapping) ELSE "">>), "\n")
    IN  [vertexGlsl |-> prefixVertex \o "\n" \o parameters.vertexShader,
         fragmentGlsl |-> prefixFragment \o "\n" \o parameters.fragmentShader]

\* ---- WebGLRenderer ----
\* The text of a program that was never compiled.
NoText == [vertexGlsl |-> "", fragmentGlsl |-> ""]

NoMaterialProperties ==
    [version |-> Undefined, currentProgram |-> Undefined, programs |-> <<>>,
     toneMapping |-> "undefined"]

\* programs.get( programCacheKey ) of the material's map, a sequence of
\* <<key, program>> in insertion order
MapGet(map, key) ==
    IF \E i \in 1..Len(map) : map[i][1] = key
    THEN map[CHOOSE i \in 1..Len(map) : map[i][1] = key][2]
    ELSE Undefined

\* getProgram( material, scene, object ): [d, program]
drawGetProgram(d, m, object) ==
    LET gp == getParameters(d, m, object)
        parameters == gp.parameters
        d1 == gp.d
        programCacheKey == getProgramCacheKey(parameters)
        mp == d1.properties[m]
        found == MapGet(mp.programs, programCacheKey)
    IN
    IF found # Undefined
    THEN [d |-> [d1 EXCEPT !.properties[m].toneMapping = parameters.toneMapping,
                           !.properties[m].currentProgram = found],
          program |-> found]
    ELSE LET r == AcquireProgram(d1.programs, d1.programObjs, d1.programIdCount,
                                 programCacheKey)
             isNew == r.idCount # d1.programIdCount IN
         [d |-> [d1 EXCEPT !.programs = r.programs,
                           !.programObjs = r.objs,
                           !.programIdCount = r.idCount,
                           !.texts[r.program] = IF isNew THEN ShaderText(parameters) ELSE @,
                           !.properties[m].programs = Append(@, <<programCacheKey, r.program>>),
                           !.properties[m].toneMapping = parameters.toneMapping,
                           !.properties[m].currentProgram = r.program],
          program |-> r.program]

\* needsProgramChange of setProgram
NeedsProgramChange(d, m) ==
    IF d.materials[m].version = d.properties[m].version
    THEN d.properties[m].toneMapping # d.toneMapping
    ELSE TRUE

\* setProgram( camera, scene, geometry, material, object ) as far as the
\* program it returns: [d, program]
setProgram(d, m, object) ==
    LET d1 == [d EXCEPT !.properties[m].version = d.materials[m].version] IN
    IF NeedsProgramChange(d, m)
    THEN drawGetProgram(d1, m, object)
    ELSE [d |-> d1, program |-> d.properties[m].currentProgram]

\* The programs of the material's map, in the order of forEach.
HeldPrograms(map) == [i \in 1..Len(map) |-> map[i][2]]

\* material.dispose(): onMaterialDispose -> deallocateMaterial
drawMaterialDispose(d, m) ==
    LET mp == d.properties[m]
        r == ReleaseAll(d.programs, d.programObjs, [p \in ProgramIds |-> 0],
                        HeldPrograms(mp.programs)) IN
    [d EXCEPT !.programs = r.programs,
              !.programObjs = r.objs,
              !.customShaders = IF d.materials[m].type = "ShaderMaterial"
                                THEN ShaderCacheRemove(@, m) ELSE @,
              !.properties[m] = NoMaterialProperties]

\* The programs and the shader stages ever made are bounded: a draw that
\* would make one more is left out.
Draw(m, object) ==
    LET r == setProgram(drawing, m, object) IN
    /\ r.d.programIdCount <= MaxDrawPrograms
    /\ r.d.customShaders.id <= MaxStages
    /\ drawing' = r.d
    /\ UNCHANGED notDrawVars

\* material.map = texture or null; material.needsUpdate = true, of a
\* PointsMaterial
SetMap(m, map) ==
    /\ drawing.materials[m].type = "PointsMaterial"
    /\ drawing.materials[m].map # map
    /\ drawing.materials[m].version < MaxMaterialVersion
    /\ drawing' = [drawing EXCEPT !.materials[m].map = map,
                                  !.materials[m].version = @ + 1]
    /\ UNCHANGED notDrawVars

\* renderer.toneMapping = toneMapping
SetToneMapping(toneMapping) ==
    /\ drawing.toneMapping # toneMapping
    /\ drawing' = [drawing EXCEPT !.toneMapping = toneMapping]
    /\ UNCHANGED notDrawVars

\* The listener of 'dispose' is there once getProgram made the programs map.
Dispose(m) ==
    /\ drawing.properties[m].programs # <<>>
    /\ drawing' = drawMaterialDispose(drawing, m)
    /\ UNCHANGED notDrawVars

DrawingConstructed(materials) ==
    [materials |-> materials,
     toneMapping |-> "NoToneMapping",
     customShaders |-> ShaderCacheConstructed,
     programs |-> <<>>,
     programObjs |-> [p \in ProgramIds |-> NoProgramObj],
     programIdCount |-> 0,
     texts |-> [p \in ProgramIds |-> NoText],
     properties |-> [m \in DrawMaterials |-> NoMaterialProperties]]

\* The materials of a specification that draws nothing.
DrawIdle ==
    drawing = DrawingConstructed([m \in DrawMaterials |->
                  CHOOSE k \in MaterialKinds : k.type = "PointsMaterial" /\ ~k.map])

\* The materials are of one type: a program is shared by materials of one
\* shader only.
InitDrawing ==
    \E materials \in [DrawMaterials -> MaterialKinds] :
        /\ \A m \in DrawMaterials : materials[m].type = materials[1].type
        /\ drawing = DrawingConstructed(materials)

NextDrawing ==
    \/ \E m \in DrawMaterials, object \in DrawObjects : Draw(m, object)
    \/ \E m \in DrawMaterials, map \in BOOLEAN : SetMap(m, map)
    \/ \E toneMapping \in ToneMappings : SetToneMapping(toneMapping)
    \/ \E m \in DrawMaterials : Dispose(m)

\* material.vertexShader = code; material.needsUpdate = true, of a
\* ShaderMaterial
SetVertexShader(m, code) ==
    /\ drawing.materials[m].type = "ShaderMaterial"
    /\ drawing.materials[m].vertexShader # code
    /\ drawing.materials[m].version < MaxMaterialVersion
    /\ drawing' = [drawing EXCEPT !.materials[m].vertexShader = code,
                                  !.materials[m].version = @ + 1]
    /\ UNCHANGED notDrawVars

\* The materials are ShaderMaterials.
InitShaders ==
    /\ InitDrawing
    /\ \A m \in DrawMaterials : drawing.materials[m].type = "ShaderMaterial"

\* Draws and disposals of ShaderMaterials whose shader text changes.
NextShaders ==
    \/ \E m \in DrawMaterials, object \in DrawObjects : Draw(m, object)
    \/ \E toneMapping \in ToneMappings : SetToneMapping(toneMapping)
    \/ \E m \in DrawMaterials : Dispose(m)
    \/ \E m \in DrawMaterials, code \in VertexCodes : SetVertexShader(m, code)

----------------------------------------------------------------------------
(***************************************************************************)
(* Program selection: the properties checked.                              *)
(***************************************************************************)
\* The key of the material drawn with the object, from the current state.
KeyOf(d, m, object) == getProgramCacheKey(getParameters(d, m, object).parameters)

\* The draw stays within the bounds of the model.
Drawable(d, m, object) ==
    LET r == setProgram(d, m, object) IN
    /\ r.d.programIdCount <= MaxDrawPrograms
    /\ r.d.customShaders.id <= MaxStages

\* C17: for every item drawn, the program setProgram uses is the cached
\* program whose cache key is the key computed from the current state of the
\* item's material, object and geometry and of the renderer.
C17_ProgramOfCurrentKey ==
    \A m \in DrawMaterials, object \in DrawObjects :
        Drawable(drawing, m, object) =>
            LET r == setProgram(drawing, m, object) IN
            r.d.programObjs[r.program].cacheKey = KeyOf(r.d, m, object)

\* The same of the draws for which setProgram calls getProgram.
ReacquiredProgramOfCurrentKey ==
    \A m \in DrawMaterials, object \in DrawObjects :
        Drawable(drawing, m, object) /\ NeedsProgramChange(drawing, m) =>
            LET r == setProgram(drawing, m, object) IN
            r.d.programObjs[r.program].cacheKey = KeyOf(r.d, m, object)

\* A material with a map was drawn with the geometry that has a uv attribute
\* and is drawn next with the geometry that has none.
SharedByTwoGeometries ==
    \E m \in DrawMaterials :
        /\ drawing.materials[m].map
        /\ drawing.properties[m].currentProgram # Undefined
        /\ ~NeedsProgramChange(drawing, m)
        /\ drawing.programObjs[drawing.properties[m].currentProgram].cacheKey
               = KeyOf(drawing, m, 1)

\* What a material asks of its shaders: all of it but the version.
Requirements(material) == [material EXCEPT !.version = 0]

C19_SameKeySameText ==
    \A m1 \in DrawMaterials, m2 \in DrawMaterials :
        \A o1 \in DrawObjects, o2 \in DrawObjects :
            LET g1 == getParameters(drawing, m1, o1)
                g2 == getParameters(g1.d, m2, o2) IN
            getProgramCacheKey(g1.parameters) = getProgramCacheKey(g2.parameters)
                => ShaderText(g1.parameters) = ShaderText(g2.parameters)

\* The same of the materials without gradientMap whose defines hold no comma.
Keyed(material) ==
    /\ ~material.gradientMap
    /\ material.defines # <<<<"N", "1,M,2">>>>

SameKeySameTextOfKeyed ==
    \A m1 \in DrawMaterials, m2 \in DrawMaterials :
        \A o1 \in DrawObjects, o2 \in DrawObjects :
            Keyed(drawing.materials[m1]) /\ Keyed(drawing.materials[m2]) =>
                LET g1 == getParameters(drawing, m1, o1)
                    g2 == getParameters(g1.d, m2, o2) IN
                getProgramCacheKey(g1.parameters) = getProgramCacheKey(g2.parameters)
                    => ShaderText(g1.parameters) = ShaderText(g2.parameters)

\* A program in the cache is the program of another text than the one the
\* material drawn next asks for under the same key.
HitOfAnotherText ==
    \E m \in DrawMaterials, object \in DrawObjects, p \in ProgramIds :
        LET g == getParameters(drawing, m, object) IN
        /\ drawing.programObjs[p].usedTimes > 0
        /\ drawing.programObjs[p].cacheKey = getProgramCacheKey(g.parameters)
        /\ drawing.texts[p] # ShaderText(g.parameters)

----------------------------------------------------------------------------
\* The materials registered in the shader cache whose set of stages holds
\* the stage of the code.
StageHolders(sc, code) == {m \in DrawMaterials : code \in sc.materialCache[m]}

\* usedTimes of every stage is the number of its holders, and a stage is
\* cached while it has a holder and no longer.
StagesCounted(sc) ==
    \A code \in Codes :
        /\ sc.stages[code].usedTimes = Cardinality(StageHolders(sc, code))
        /\ sc.stages[code] # NoStage <=> StageHolders(sc, code) # {}

\* C38: after any registrations of ShaderMaterials, with the shader text
\* changed in between, and removals, usedTimes of each cached stage is the
\* number of registered materials whose set of stages holds it, and a stage
\* is evicted exactly when that number is zero; so it is after one more
\* update or remove of any material.
C38_UsedTimesCountsMaterials ==
    /\ StagesCounted(drawing.customShaders)
    /\ \A m \in DrawMaterials :
          /\ StagesCounted(ShaderCacheRemove(drawing.customShaders, m))
          /\ drawing.customShaders.id + 2 <= MaxStages =>
                StagesCounted(ShaderCacheUpdate(drawing.customShaders, m,
                                                drawing.materials[m]))

\* A material was registered with one vertex shader text and again with
\* another, so its set holds three stages, and the other material shares
\* two of them; a removal of the first evicts the third.
C38_Witness ==
    LET sc == drawing.customShaders IN
    /\ \E m \in DrawMaterials :
          /\ Cardinality(sc.materialCache[m]) = 3
          /\ \E code \in Codes :
                /\ sc.stages[code].usedTimes = 1
                /\ ShaderCacheRemove(sc, m).stages[code] = NoStage
    /\ \E code \in Codes : sc.stages[code].usedTimes = 2

(***************************************************************************)
(* Program readiness (WebGLProgram.isReady, WebGLRenderer.compileAsync).   *)
(*                                                                         *)
(* compiling is the record of the state these read and write: whether the  *)
(* context has KHR_parallel_shader_compile, the program of each material,  *)
(* programReady of each program, the completion status the driver reports, *)
(* the number of status queries made, and the materials, the timer and the *)
(* promise of a compileAsync call.                                         *)
(***************************************************************************)
CompiledMaterials == 1..NumCompiledMaterials
CompiledPrograms == 1..NumCompiledPrograms

\* isReady() that asks the driver on every call.
isReadyAsking(c, p) ==
    [c |-> [c EXCEPT !.programReady[p] = c.completed[p], !.queries[p] = @ + 1],
     ready |-> c.completed[p]]

\* isReady(): r.c is what it leaves, r.ready what it returns. The query is
\* gl.getProgramParameter(program, COMPLETION_STATUS_KHR), which returns
\* the status without waiting for the link.
isReady(c, p) ==
    IF c.programReady[p] = FALSE
    THEN [c |-> [c EXCEPT !.programReady[p] = c.completed[p],
                          !.queries[p] = @ + 1],
          ready |-> c.completed[p]]
    ELSE [c |-> c, ready |-> c.programReady[p]]

\* materials.forEach of checkMaterialsReady, over the materials from m on.
\* properties.get( material ) of a material disposed of is a new object, its
\* currentProgram undefined: program.isReady() throws a TypeError.
RECURSIVE ForEachMaterial(_, _)
ForEachMaterial(c, m) ==
    IF m > NumCompiledMaterials THEN c
    ELSE IF m \notin c.materials THEN ForEachMaterial(c, m + 1)
    ELSE IF c.currentProgram[m] = Undefined THEN [c EXCEPT !.threw = TRUE]
    ELSE LET r == isReady(c, c.currentProgram[m]) IN
         ForEachMaterial(IF r.ready
                         THEN [r.c EXCEPT !.materials = @ \ {m}]
                         ELSE r.c,
                         m + 1)

\* checkMaterialsReady()
checkMaterialsReady(c) ==
    LET c1 == ForEachMaterial(c, 1) IN
    IF c1.threw THEN c1
    ELSE IF c1.materials = {}
    THEN [c1 EXCEPT !.promise = "resolved"]
    ELSE [c1 EXCEPT !.timer = TRUE]

\* compileAsync( scene, camera ): every material of the scene is compiled.
compileAsync(c) ==
    LET c1 == [c EXCEPT !.materials = CompiledMaterials, !.promise = "pending"] IN
    IF c1.parallel THEN checkMaterialsReady(c1) ELSE [c1 EXCEPT !.timer = TRUE]

\* The programs as their constructor leaves them, the link started.
CompilingConstructed(parallel, currentProgram) ==
    [parallel |-> parallel,
     currentProgram |-> currentProgram,
     programReady |-> [p \in CompiledPrograms |-> (parallel = FALSE)],
     completed |-> [p \in CompiledPrograms |-> FALSE],
     queries |-> [p \in CompiledPrograms |-> 0],
     materials |-> {},
     timer |-> FALSE,
     promise |-> "none",
     threw |-> FALSE]

\* program.isReady(), called by the application.
IsReady(p) ==
    /\ compiling.queries[p] < MaxQueries
    /\ compiling' = isReady(compiling, p).c
    /\ UNCHANGED notCompileVars

\* renderer.compileAsync( scene, camera )
CompileAsync ==
    /\ compiling.promise = "none"
    /\ compiling' = compileAsync(compiling)
    /\ UNCHANGED notCompileVars

\* The timer of setTimeout( checkMaterialsReady, 10 ) fires.
Timeout ==
    /\ compiling.timer
    /\ \A p \in CompiledPrograms : compiling.queries[p] < MaxQueries
    /\ compiling' = checkMaterialsReady([compiling EXCEPT !.timer = FALSE])
    /\ UNCHANGED notCompileVars

\* The driver finishes the link of a program.
LinkCompletes(p) ==
    /\ ~compiling.completed[p]
    /\ compiling' = [compiling EXCEPT !.completed[p] = TRUE]
    /\ UNCHANGED notCompileVars

\* Programs of a specification that does not exercise them.
CompileIdle ==
    compiling = CompilingConstructed(FALSE, [m \in CompiledMaterials |-> 1])

InitCompiling ==
    \E parallel \in BOOLEAN, currentProgram \in [CompiledMaterials -> CompiledPrograms] :
        compiling = CompilingConstructed(parallel, currentProgram)

NextCompiling ==
    \/ \E p \in CompiledPrograms : IsReady(p)
    \/ CompileAsync
    \/ Timeout
    \/ \E p \in CompiledPrograms : LinkCompletes(p)

\* The timer fires; a program whose link is complete is asked whatever the
\* number of queries made.
Poll ==
    /\ compiling.timer
    /\ \A p \in CompiledPrograms :
          ~compiling.completed[p] => compiling.queries[p] < MaxQueries
    /\ compiling' = checkMaterialsReady([compiling EXCEPT !.timer = FALSE])
    /\ UNCHANGED notCompileVars

\* material.dispose() while the timer is pending: deallocateMaterial removes
\* the properties of the material.
DisposeMaterial(m) ==
    /\ compiling.timer
    /\ compiling.currentProgram[m] # Undefined
    /\ compiling' = [compiling EXCEPT !.currentProgram[m] = Undefined]
    /\ UNCHANGED notCompileVars

\* A draw of the material while the timer is pending: setProgram makes
\* another program its currentProgram.
SetProgram(m, p) ==
    /\ compiling.timer
    /\ compiling.currentProgram[m] # p
    /\ compiling' = [compiling EXCEPT !.currentProgram[m] = p]
    /\ UNCHANGED notCompileVars

\* compileAsync with materials drawn with another program while it polls.
NextResolving ==
    \/ \E p \in CompiledPrograms : IsReady(p)
    \/ CompileAsync
    \/ Poll
    \/ \E p \in CompiledPrograms : LinkCompletes(p)
    \/ \E m \in CompiledMaterials, p \in CompiledPrograms : SetProgram(m, p)

\* The same, with materials disposed of while it polls.
NextPolling ==
    \/ NextResolving
    \/ \E m \in CompiledMaterials : DisposeMaterial(m)

\* The timer fires when it is set, and the driver finishes every link.
PollingFairness ==
    /\ WF_vars(Poll)
    /\ \A p \in CompiledPrograms : WF_vars(LinkCompletes(p))

\* C36: the promise of compileAsync is resolved in the end, every program
\* being linked in the end, also when a material waited for is disposed of
\* or drawn with another program while the timer is pending.
C36_PromiseResolves ==
    (compiling.promise = "pending") ~> (compiling.promise = "resolved")

\* While the promise is pending the timer of the next poll is set.
PendingPromiseIsPolled == compiling.promise = "pending" => compiling.timer

\* The poll has thrown on a material disposed of: every link is complete,
\* no timer is set and the promise is pending.
PollThrew ==
    /\ compiling.threw
    /\ compiling.promise = "pending"
    /\ ~compiling.timer
    /\ \A p \in CompiledPrograms : compiling.completed[p]

\* C28: isReady() returns after at most one status query, which does not
\* wait. Without KHR_parallel_shader_compile it returns true from the first
\* call on, without a query. With it, a call on a program not yet seen
\* complete makes exactly one query and returns the status the driver
\* reports; once a call has returned true, every later call returns true
\* without a query, and programReady never goes back to false.
C28_ReadinessNeverBlocks ==
    /\ [](\A p \in CompiledPrograms :
            LET r == isReady(compiling, p) IN
            /\ r.c.queries[p] \in {compiling.queries[p], compiling.queries[p] + 1}
            /\ ~compiling.parallel =>
                  r.ready /\ r.c.queries[p] = 0
            /\ (compiling.parallel /\ ~compiling.programReady[p]) =>
                  /\ r.c.queries[p] = compiling.queries[p] + 1
                  /\ r.ready = compiling.completed[p]
            /\ compiling.programReady[p] =>
                  /\ r.ready
                  /\ r.c = compiling
                  /\ compiling.parallel => compiling.completed[p])
    /\ \A p \in CompiledPrograms :
          [](compiling.programReady[p] => [](compiling.programReady[p]))
    /\ [][\A p \in CompiledPrograms :
            compiling'.queries[p] # compiling.queries[p] =>
                ~compiling.programReady[p]]_vars

\* With the extension: a program was queried twice before the driver
\* reported completion, then seen complete, and compileAsync resolved.
C28_Witness ==
    /\ compiling.parallel
    /\ \E p \in CompiledPrograms :
          /\ compiling.queries[p] = MaxQueries
          /\ compiling.programReady[p]
    /\ compiling.promise = "resolved"

----------------------------------------------------------------------------
(***************************************************************************)
(* Context loss, restoration and dispose() (WebGLRenderer).                *)
(*                                                                         *)
(* life is the record of the state these read and write: the driver (the   *)
(* generation of its context, whether it is lost, its live objects and its *)
(* framebuffer binding), _isContextLost, whether the canvas listeners are  *)
(* attached, the caches initGLContext creates, the tracker's snapshot, the *)
(* shadow map's settings and info.autoReset, _currentRenderTarget, and the *)
(* draw calls of the last operation with the framebuffer they went to.     *)
(* The scene is one mesh: a material, a geometry and a texture; a handle   *)
(* is <<kind, generation of the context that created it>>.                 *)
(***************************************************************************)
Generations == 0..MaxRestorations

\* null, undefined
NoHandle == <<>>

HandleKinds == {"program", "buffer", "vertexArray", "texture", "framebuffer"}

ShadowMapTypes == {"PCFShadowMap", "VSMShadowMap"}

\* The settings of the shadow map and info.autoReset the caller can choose.
Settings ==
    [enabled : BOOLEAN, autoUpdate : BOOLEAN, needsUpdate : BOOLEAN,
     type : ShadowMapTypes, autoReset : BOOLEAN]

\* new WebGLShadowMap(...) and new WebGLInfo(gl): the settings of the two.
SettingsConstructed ==
    [enabled |-> FALSE, autoUpdate |-> TRUE, needsUpdate |-> FALSE,
     type |-> "PCFShadowMap", autoReset |-> TRUE]

\* The caches as their constructors leave them.
CachesConstructed ==
    [renderLists |-> FALSE, renderStates |-> FALSE, objects |-> FALSE,
     currentProgram |-> NoHandle, webglTexture |-> NoHandle,
     webglFramebuffer |-> NoHandle,
     buffer |-> NoHandle, vertexArray |-> NoHandle, programs |-> {}]

\* new WebGLState(gl): nothing bound.
SnapshotConstructed == [program |-> NoHandle, framebuffer |-> NoHandle]

\* initGLContext()
initGLContext(l) ==
    [l EXCEPT !.caches = CachesConstructed,
              !.state = SnapshotConstructed,
              !.settings = SettingsConstructed]

\* onContextLost( event )
onContextLost(l) == [l EXCEPT !.isContextLost = TRUE, !.draws = 0]

\* onContextRestore() that replays nothing.
onContextRestoreAnew(l) ==
    [initGLContext(l) EXCEPT !.isContextLost = FALSE, !.draws = 0]

\* onContextRestore()
onContextRestore(l) ==
    LET settings == l.settings IN
    [initGLContext(l) EXCEPT !.isContextLost = FALSE,
                             !.settings = settings,
                             !.draws = 0]

\* gl.createProgram, createBuffer, createVertexArray, createTexture,
\* createFramebuffer: null on a lost context.
NewHandle(l, kind) == IF l.lost THEN NoHandle ELSE <<kind, l.generation>>

\* The record of a cache, created by the driver where the cache has none.
HandleOf(l, field, kind) ==
    IF l.caches[field] = NoHandle THEN NewHandle(l, kind) ELSE l.caches[field]

\* The driver's objects after the handles were created.
LiveWith(l, handles) == IF l.lost THEN l.live ELSE l.live \cup (handles \ {NoHandle})

\* setRenderTarget( renderTarget ), renderTarget a WebGLRenderTarget or null
lifeSetRenderTarget(l, renderTarget) ==
    LET framebuffer == IF renderTarget
                       THEN HandleOf(l, "webglFramebuffer", "framebuffer")
                       ELSE NoHandle
    IN [l EXCEPT !.currentRenderTarget = renderTarget,
                 !.caches.webglFramebuffer =
                     IF renderTarget THEN framebuffer ELSE @,
                 !.live = LiveWith(l, {framebuffer}),
                 !.state.framebuffer = framebuffer,
                 !.boundFramebuffer = IF l.lost THEN @ ELSE framebuffer,
                 !.draws = 0]

\* render( scene, camera ) without the test of _isContextLost.
lifeRenderAlways(l) ==
    LET program == HandleOf(l, "currentProgram", "program")
        buffer == HandleOf(l, "buffer", "buffer")
        vertexArray == HandleOf(l, "vertexArray", "vertexArray")
        texture == HandleOf(l, "webglTexture", "texture")
    IN [l EXCEPT !.caches.renderLists = TRUE,
                 !.caches.renderStates = TRUE,
                 !.caches.objects = TRUE,
                 !.caches.currentProgram = program,
                 !.caches.programs = @ \cup ({program} \ {NoHandle}),
                 !.caches.buffer = buffer,
                 !.caches.vertexArray = vertexArray,
                 !.caches.webglTexture = texture,
                 !.live = LiveWith(l, {program, buffer, vertexArray, texture}),
                 !.state.program = program,
                 !.draws = 1,
                 !.drawnTo = l.boundFramebuffer]

\* render( scene, camera )
lifeRender(l) ==
    IF l.isContextLost THEN [l EXCEPT !.draws = 0] ELSE lifeRenderAlways(l)

\* dispose(): the listeners are removed, the WeakMaps of the render lists,
\* the render states, the properties and the objects are replaced,
\* bindingStates deletes its vertex array objects, and programCache
\* disposes its shader cache.
lifeDispose(l) ==
    [l EXCEPT !.listening = FALSE,
              !.caches.renderLists = FALSE,
              !.caches.renderStates = FALSE,
              !.caches.currentProgram = NoHandle,
              !.caches.webglTexture = NoHandle,
              !.caches.webglFramebuffer = NoHandle,
              !.caches.objects = FALSE,
              !.caches.vertexArray = NoHandle,
              !.live = @ \ {l.caches.vertexArray},
              !.draws = 0]

\* The renderer as its constructor leaves it.
LifeConstructed ==
    [generation |-> 0, lost |-> FALSE, live |-> {}, boundFramebuffer |-> NoHandle,
     isContextLost |-> FALSE, listening |-> TRUE,
     caches |-> CachesConstructed, state |-> SnapshotConstructed,
     settings |-> SettingsConstructed,
     currentRenderTarget |-> FALSE, draws |-> 0, drawnTo |-> NoHandle]

\* The driver loses the context: its objects are invalid.
LoseContext ==
    /\ ~life.lost
    /\ life' = [life EXCEPT !.lost = TRUE, !.live = {},
                            !.boundFramebuffer = NoHandle, !.draws = 0]
    /\ UNCHANGED notLifeVars

\* webglcontextlost is dispatched to the canvas.
ContextLost ==
    /\ life.lost /\ ~life.isContextLost
    /\ life.listening
    /\ life' = onContextLost(life)
    /\ UNCHANGED notLifeVars

\* The driver restores the context, which it does when the default of
\* webglcontextlost was prevented, and webglcontextrestored is dispatched.
ContextRestored ==
    /\ life.lost /\ life.isContextLost
    /\ life.generation < MaxRestorations
    /\ LET restored == [life EXCEPT !.lost = FALSE, !.generation = @ + 1, !.draws = 0] IN
       life' = IF life.listening THEN onContextRestore(restored) ELSE restored
    /\ UNCHANGED notLifeVars

\* renderer.render( scene, camera )
LifeRender ==
    /\ life' = lifeRender(life)
    /\ UNCHANGED notLifeVars

\* renderer.setRenderTarget( renderTarget )
LifeSetRenderTarget(renderTarget) ==
    /\ life.currentRenderTarget # renderTarget
    /\ life' = lifeSetRenderTarget(life, renderTarget)
    /\ UNCHANGED notLifeVars

\* renderer.shadowMap.enabled = ..., renderer.info.autoReset = ..., and the
\* like, by the application.
Configure(settings) ==
    /\ life.settings = SettingsConstructed
    /\ settings # SettingsConstructed
    /\ life' = [life EXCEPT !.settings = settings, !.draws = 0]
    /\ UNCHANGED notLifeVars

\* renderer.dispose()
LifeDispose ==
    /\ life.listening
    /\ life' = lifeDispose(life)
    /\ UNCHANGED notLifeVars

\* The renderer of a specification that does not exercise its life.
LifeIdle == life = LifeConstructed

InitLife == life = LifeConstructed

NextLife ==
    \/ LoseContext
    \/ ContextLost
    \/ ContextRestored
    \/ LifeRender
    \/ \E renderTarget \in BOOLEAN : LifeSetRenderTarget(renderTarget)
    \/ \E settings \in Settings : Configure(settings)
    \/ LifeDispose

\* C21: while _isContextLost is set, from the dispatch of webglcontextlost
\* to the restoration, a render call submits no draw call and leaves the
\* driver and the caches as they are; no operation of that time has
\* submitted one.
C21_NoDrawWhileLost ==
    life.isContextLost =>
        /\ life.draws = 0
        /\ lifeRender(life) = life

\* The loss was notified to a renderer that had drawn the mesh; the render
\* calls since submitted nothing.
C21_Witness ==
    /\ life.isContextLost
    /\ life.lost
    /\ life.caches.renderLists
    /\ life.caches.currentProgram # NoHandle
    /\ life.drawnTo # NoHandle
    /\ life.draws = 0

\* The renderer when the driver has restored the context and
\* webglcontextrestored is about to be dispatched.
Restorable(l) == l.lost /\ l.isContextLost /\ l.listening

RestoredDriver(l) == [l EXCEPT !.lost = FALSE, !.generation = @ + 1, !.draws = 0]

\* C22: the restoration leaves the shadow map's enabled, autoUpdate,
\* needsUpdate and type and info.autoReset as they were immediately before
\* it, while the shadow map and the info are constructed anew.
C22_SettingsReplayed ==
    Restorable(life) =>
        LET l == onContextRestore(RestoredDriver(life)) IN
        /\ l.settings = life.settings
        /\ ~l.isContextLost
        /\ initGLContext(RestoredDriver(life)).settings = SettingsConstructed

\* The context was restored to a renderer whose five settings all differ
\* from those of the constructors, and they are the renderer's settings.
C22_Witness ==
    /\ life.generation > 0
    /\ ~life.isContextLost
    /\ life.listening
    /\ life.caches = CachesConstructed
    /\ life.settings = [enabled |-> TRUE, autoUpdate |-> FALSE, needsUpdate |-> TRUE,
                        type |-> "VSMShadowMap", autoReset |-> FALSE]

\* The handles the caches and the snapshot hold.
HandlesOf(l) ==
    ({l.caches.currentProgram, l.caches.webglTexture, l.caches.webglFramebuffer,
      l.caches.buffer, l.caches.vertexArray, l.state.program, l.state.framebuffer}
        \cup l.caches.programs) \ {NoHandle}

\* C23: the restoration reinitialises every cache and the snapshot: they
\* hold no record and no handle of the lost context; and a render call
\* after it creates the resources it draws with, and the render target it
\* draws to, in the new context.
C23_RestoredFromScratch ==
    Restorable(life) =>
        LET l == onContextRestore(RestoredDriver(life))
            r == lifeRender(l) IN
        /\ l.caches = CachesConstructed
        /\ l.state = SnapshotConstructed
        /\ HandlesOf(r) \subseteq r.live
        /\ \A h \in HandlesOf(r) : h[2] = r.generation
        /\ r.draws = 1
        /\ r.currentRenderTarget =>
              /\ r.caches.webglFramebuffer = <<"framebuffer", r.generation>>
              /\ r.drawnTo = r.caches.webglFramebuffer

\* The part of it that holds: the caches and the snapshot are those of the
\* constructors, and the program, the buffer, the vertex array object and
\* the texture of a mesh rendered afterwards are created in the new context.
RestoredCachesAreNew ==
    Restorable(life) =>
        LET l == onContextRestore(RestoredDriver(life))
            r == lifeRender(l) IN
        /\ l.caches = CachesConstructed
        /\ l.state = SnapshotConstructed
        /\ HandlesOf(r) \subseteq r.live
        /\ \A h \in HandlesOf(r) : h[2] = r.generation
        /\ r.draws = 1
        /\ {h[1] : h \in HandlesOf(r)} = {"program", "buffer", "vertexArray", "texture"}

\* After the restoration a render call drew to the canvas while the render
\* target set before the loss is the current one and has no framebuffer.
DrawnPastRenderTarget ==
    /\ life.generation > 0
    /\ ~life.isContextLost
    /\ life.currentRenderTarget
    /\ life.caches.webglFramebuffer = NoHandle
    /\ life.draws = 1
    /\ life.drawnTo = NoHandle

\* The handles the caches own.
Owned(l) ==
    ({l.caches.currentProgram, l.caches.webglTexture, l.caches.webglFramebuffer,
      l.caches.buffer, l.caches.vertexArray} \cup l.caches.programs) \ {NoHandle}

\* C24: after dispose() the caches of the render lists, the render states,
\* the properties, the objects, the binding states and the programs hold no
\* entry, and every program, vertex array object, texture and buffer they
\* owned is deleted.
C24_DisposeReleasesAll ==
    life.listening =>
        LET l == lifeDispose(life) IN
        /\ ~l.caches.renderLists /\ ~l.caches.renderStates /\ ~l.caches.objects
        /\ l.caches.currentProgram = NoHandle
        /\ l.caches.webglTexture = NoHandle
        /\ l.caches.vertexArray = NoHandle
        /\ l.caches.programs = {}
        /\ Owned(life) \cap l.live = {}

\* What dispose() does: the WeakMaps are emptied, the vertex array objects
\* are deleted; the programs stay in the program cache and the programs,
\* the textures, the buffers and the framebuffers stay alive in the driver.
DisposeKeepsHandles ==
    life.listening =>
        LET l == lifeDispose(life) IN
        /\ ~l.listening
        /\ ~l.caches.renderLists /\ ~l.caches.renderStates /\ ~l.caches.objects
        /\ l.caches.currentProgram = NoHandle
        /\ l.caches.webglTexture = NoHandle
        /\ l.caches.vertexArray = NoHandle
        /\ l.caches.programs = life.caches.programs
        /\ l.caches.buffer = life.caches.buffer
        /\ l.live = life.live \ {life.caches.vertexArray}

\* dispose() was called on a renderer that had drawn: its program is still
\* in the program cache and alive, as are its texture and its buffer.
DisposedWithLiveHandles ==
    /\ ~life.listening
    /\ ~life.lost
    /\ life.caches.programs # {}
    /\ life.caches.programs \subseteq life.live
    /\ \E h \in life.live : h[1] = "texture"
    /\ \E h \in life.live : h[1] = "buffer"
    /\ life.caches.currentProgram = NoHandle

----------------------------------------------------------------------------
(***************************************************************************)
(* Clear colour and clear alpha over a render call (getClearColor,         *)
(* setClearColor, getClearAlpha, setClearAlpha, renderTransmissionPass).   *)
(*                                                                         *)
(* clearing is the record of the state these read and write: the clear     *)
(* colour and the clear alpha the renderer's methods hand to the           *)
(* background, and the renderer's _currentClearColor and                   *)
(* _currentClearAlpha. A colour is a number, 0 for 0x000000 and White for  *)
(* 0xffffff; an alpha is a number of halves. A render call is a chain of   *)
(* calls: each has transmissive objects or has none, and the               *)
(* onBeforeRender of an opaque object of each but the last calls render    *)
(* for the next. No material is double sided and no scene has an override  *)
(* material.                                                               *)
(***************************************************************************)
White == MaxClearColor

ClearColors == 0..MaxClearColor

ClearAlphas == 0..Opaque

\* The renderer constructed with the context attribute alpha: the
\* background's clear colour is 0x000000 and its clear alpha 0 with alpha,
\* 1 without.
ClearingConstructed(alpha) ==
    [clearColor |-> 0, clearAlpha |-> IF alpha THEN 0 ELSE Opaque,
     _currentClearColor |-> 0, _currentClearAlpha |-> 0]

\* renderer.setClearColor(color, alpha).
setClearColor(c, color, alpha) == [c EXCEPT !.clearColor = color, !.clearAlpha = alpha]

\* renderer.setClearAlpha(alpha).
setClearAlpha(c, alpha) == [c EXCEPT !.clearAlpha = alpha]

\* render() of the chain of calls, from renderTransmissionPass on: the pass
\* when the call has transmissive objects, then renderScene. renderObjects
\* of the opaque objects runs the onBeforeRender that calls render for the
\* rest of the chain, in the pass and in renderScene.
RECURSIVE clearRender(_, _)
clearRender(c, calls) ==
    LET renderObjects(d) == IF Tail(calls) = <<>> THEN d ELSE clearRender(d, Tail(calls))
        saved == [c EXCEPT !._currentClearColor = c.clearColor,
                           !._currentClearAlpha = c.clearAlpha]
        cleared == IF saved._currentClearAlpha < Opaque
                   THEN setClearColor(saved, White, HalfAlpha)
                   ELSE saved
        drawn == renderObjects(cleared)
        renderTransmissionPass ==
            setClearColor(drawn, drawn._currentClearColor, drawn._currentClearAlpha)
    IN renderObjects(IF Head(calls) THEN renderTransmissionPass ELSE c)

\* The chains of calls: whether each call has transmissive objects.
RenderChains == UNION {[1..n -> BOOLEAN] : n \in 1..MaxNesting}

SetClearColor(color, alpha) ==
    /\ clearing' = setClearColor(clearing, color, alpha)
    /\ UNCHANGED notClearVars

SetClearAlpha(alpha) ==
    /\ clearing' = setClearAlpha(clearing, alpha)
    /\ UNCHANGED notClearVars

ClearRender(calls) ==
    /\ clearing' = clearRender(clearing, calls)
    /\ UNCHANGED notClearVars

ClearIdle == clearing = ClearingConstructed(FALSE)

InitClearing == \E alpha \in BOOLEAN : clearing = ClearingConstructed(alpha)

NextClearing ==
    \/ \E color \in ClearColors, alpha \in ClearAlphas : SetClearColor(color, alpha)
    \/ \E alpha \in ClearAlphas : SetClearAlpha(alpha)
    \/ \E calls \in RenderChains : ClearRender(calls)

\* C32: whatever the chain of calls, the clear colour and the clear alpha
\* after render() are those before it.
C32_RenderKeepsClearColor ==
    \A calls \in RenderChains :
        LET d == clearRender(clearing, calls)
        IN /\ d.clearColor = clearing.clearColor
           /\ d.clearAlpha = clearing.clearAlpha

\* A render call without a nested call keeps the clear colour and the clear
\* alpha.
SingleRenderKeepsClearColor ==
    \A transmissive \in BOOLEAN :
        LET d == clearRender(clearing, <<transmissive>>)
        IN /\ d.clearColor = clearing.clearColor
           /\ d.clearAlpha = clearing.clearAlpha

\* The clear alpha is below 1 and a call with transmissive objects, whose
\* pass runs a nested call with transmissive objects, leaves the renderer
\* with the clear colour and alpha of the pass.
NestedPassClearColorKept ==
    /\ clearing.clearAlpha < Opaque
    /\ clearing.clearColor # White
    /\ LET d == clearRender(clearing, <<TRUE, TRUE>>)
       IN d.clearColor = White /\ d.clearAlpha = HalfAlpha

----------------------------------------------------------------------------
(***************************************************************************)
(* Pixel readback (readRenderTargetPixels, readRenderTargetPixelsAsync)    *)
(* and setRenderTarget.                                                    *)
(*                                                                         *)
(* reading is the record of the state these read and write:                *)
(* _currentRenderTarget and _currentActiveCubeFace, the framebuffer the    *)
(* state tracker has recorded for FRAMEBUFFER and the one the driver has   *)
(* bound, the number of readRenderTargetPixelsAsync calls waiting for      *)
(* their fence, the framebuffer the last render or clear went to, and      *)
(* whether the last operation threw. Render target 1 has one framebuffer,  *)
(* 2 is multisampled (samples > 0, no multisampled render to texture) and  *)
(* 3 is a cube target; all are set up. A framebuffer is <<render target,   *)
(* property>>, or <<render target, "face", face>> for the elements of the  *)
(* cube target's __webglFramebuffer array; null is NullFramebuffer.        *)
(***************************************************************************)
ReadTargets == 1..NumReadTargets

CubeFaces == 0..MaxCubeFace

NullFramebuffer == <<NullHandle, "null">>

isWebGLCubeRenderTarget(renderTarget) == renderTarget = 3

isMultisampled(renderTarget) == renderTarget = 2

\* properties.get( renderTarget ).__webglFramebuffer
webglFramebuffer(renderTarget) ==
    IF isWebGLCubeRenderTarget(renderTarget) THEN <<renderTarget, "array">>
    ELSE <<renderTarget, "__webglFramebuffer">>

\* An array is not a WebGLFramebuffer.
IsFramebuffer(framebuffer) == framebuffer[2] # "array"

\* state.bindFramebuffer( gl.FRAMEBUFFER, framebuffer ): gl.bindFramebuffer
\* is called when the recorded binding differs, and throws a TypeError on
\* what is not a WebGLFramebuffer, before the binding is recorded.
readBindFramebuffer(d, framebuffer) ==
    IF d.threw \/ d.boundFramebuffer = framebuffer THEN d
    ELSE IF ~IsFramebuffer(framebuffer) THEN [d EXCEPT !.threw = TRUE]
    ELSE [d EXCEPT !.boundFramebuffer = framebuffer, !.framebuffer = framebuffer]

\* The framebuffer setRenderTarget( renderTarget, activeCubeFace ) binds.
TargetFramebuffer(renderTarget, activeCubeFace) ==
    IF renderTarget = NullHandle THEN NullFramebuffer
    ELSE IF isWebGLCubeRenderTarget(renderTarget) THEN <<renderTarget, "face", activeCubeFace>>
    ELSE IF isMultisampled(renderTarget) THEN <<renderTarget, "__webglMultisampledFramebuffer">>
    ELSE webglFramebuffer(renderTarget)

\* setRenderTarget( renderTarget, activeCubeFace )
readSetRenderTarget(d, renderTarget, activeCubeFace) ==
    readBindFramebuffer([d EXCEPT !.currentRenderTarget = renderTarget,
                                  !.currentActiveCubeFace = activeCubeFace,
                                  !.threw = FALSE],
                        TargetFramebuffer(renderTarget, activeCubeFace))

\* The framebuffer a readback of the render target binds.
ReadFramebuffer(renderTarget, activeCubeFaceIndex) ==
    IF isWebGLCubeRenderTarget(renderTarget) /\ activeCubeFaceIndex # Undefined
    THEN <<renderTarget, "face", activeCubeFaceIndex>>
    ELSE webglFramebuffer(renderTarget)

\* The finally block of a readback: the framebuffer of the current render
\* target is bound again.
restoreFramebuffer(d) ==
    readBindFramebuffer([d EXCEPT !.threw = FALSE],
       IF d.currentRenderTarget # NullHandle THEN webglFramebuffer(d.currentRenderTarget)
       ELSE NullFramebuffer)

\* readRenderTargetPixels( renderTarget, x, y, width, height, buffer,
\* activeCubeFaceIndex ); readable is whether the format and the type of the
\* render target's texture can be read. An error before the try block leaves
\* the function at once.
readRenderTargetPixels(d, renderTarget, activeCubeFaceIndex, readable) ==
    LET bound == readBindFramebuffer([d EXCEPT !.threw = FALSE],
                                     ReadFramebuffer(renderTarget, activeCubeFaceIndex))
    IN IF bound.threw THEN bound ELSE restoreFramebuffer(bound)

\* readRenderTargetPixelsAsync, up to await probeAsync( gl, sync, 4 ): the
\* call returns its promise to the caller.
readRenderTargetPixelsAsync(d, renderTarget, activeCubeFaceIndex, readable) ==
    LET bound == readBindFramebuffer([d EXCEPT !.threw = FALSE],
                                     ReadFramebuffer(renderTarget, activeCubeFaceIndex))
    IN IF bound.threw THEN bound
       ELSE IF ~readable THEN [restoreFramebuffer(bound) EXCEPT !.threw = TRUE]
       ELSE [bound EXCEPT !.pending = @ + 1]

\* readRenderTargetPixelsAsync, from the fence on.
readbackCompletes(d) == restoreFramebuffer([d EXCEPT !.pending = @ - 1])

\* render( scene, camera ) or clear(): the draws and the clear go to the
\* framebuffer the driver has bound.
renderOrClear(d) == [d EXCEPT !.drawn = d.framebuffer, !.threw = FALSE]

ReadingConstructed ==
    [currentRenderTarget |-> NullHandle, currentActiveCubeFace |-> 0,
     boundFramebuffer |-> NullFramebuffer, framebuffer |-> NullFramebuffer,
     pending |-> 0, drawn |-> NullFramebuffer, threw |-> FALSE]

ReadSetRenderTarget(renderTarget, activeCubeFace) ==
    /\ reading' = readSetRenderTarget(reading, renderTarget, activeCubeFace)
    /\ UNCHANGED notReadVars

ReadRenderTargetPixels(renderTarget, activeCubeFaceIndex, readable) ==
    /\ reading' = readRenderTargetPixels(reading, renderTarget, activeCubeFaceIndex, readable)
    /\ UNCHANGED notReadVars

ReadRenderTargetPixelsAsync(renderTarget, activeCubeFaceIndex, readable) ==
    /\ reading.pending < MaxPending
    /\ reading' = readRenderTargetPixelsAsync(reading, renderTarget, activeCubeFaceIndex,
                                              readable)
    /\ UNCHANGED notReadVars

ReadbackCompletes ==
    /\ reading.pending > 0
    /\ reading' = readbackCompletes(reading)
    /\ UNCHANGED notReadVars

RenderOrClear ==
    /\ reading' = renderOrClear(reading)
    /\ UNCHANGED notReadVars

ReadIdle == reading = ReadingConstructed

InitReading == reading = ReadingConstructed

\* The cube face of a call: a face for a cube target, the default otherwise.
FacesOf(renderTarget, default) ==
    IF renderTarget # NullHandle /\ isWebGLCubeRenderTarget(renderTarget)
    THEN CubeFaces \cup {default} ELSE {default}

NextReading ==
    \/ \E renderTarget \in {NullHandle} \cup ReadTargets :
          \E activeCubeFace \in FacesOf(renderTarget, 0) :
              ReadSetRenderTarget(renderTarget, activeCubeFace)
    \/ \E renderTarget \in ReadTargets, readable \in BOOLEAN :
          \E activeCubeFaceIndex \in FacesOf(renderTarget, Undefined) :
              ReadRenderTargetPixels(renderTarget, activeCubeFaceIndex, readable)
    \/ \E renderTarget \in ReadTargets, readable \in BOOLEAN :
          \E activeCubeFaceIndex \in FacesOf(renderTarget, Undefined) :
              ReadRenderTargetPixelsAsync(renderTarget, activeCubeFaceIndex, readable)
    \/ ReadbackCompletes
    \/ RenderOrClear

\* The framebuffer of the current render target is the one bound.
CurrentTargetBound(d) ==
    d.framebuffer = TargetFramebuffer(d.currentRenderTarget, d.currentActiveCubeFace)

\* C34: while a readRenderTargetPixelsAsync call waits for its fence, the
\* framebuffer bound is that of the current render target, so a render or a
\* clear goes to it.
C34_PendingReadbackKeepsTarget ==
    reading.pending > 0 => CurrentTargetBound(renderOrClear(reading))
                           /\ renderOrClear(reading).drawn =
                                 TargetFramebuffer(reading.currentRenderTarget,
                                                   reading.currentActiveCubeFace)

\* A readback is pending and a render or a clear has gone to the framebuffer
\* of the render target read, which is not the current one.
DrawnIntoReadTarget ==
    /\ reading.pending > 0
    /\ reading.currentRenderTarget = NullHandle
    /\ reading.drawn = webglFramebuffer(1)

\* C35: when the framebuffer of the current render target is bound and no
\* asynchronous readback is pending, it is bound after readRenderTargetPixels
\* too, whatever the render target read and whether the call reads, returns
\* early or throws.
C35_ReadbackRestoresTarget ==
    \A renderTarget \in ReadTargets, readable \in BOOLEAN :
        \A activeCubeFaceIndex \in FacesOf(renderTarget, Undefined) :
            reading.pending = 0 /\ CurrentTargetBound(reading) =>
                CurrentTargetBound(readRenderTargetPixels(reading, renderTarget,
                                                          activeCubeFaceIndex, readable))

\* The same, when the current render target is the canvas or a render
\* target with one framebuffer and the render target read is not a cube
\* target read without a face.
PlainTargetRestored ==
    \A renderTarget \in ReadTargets, readable \in BOOLEAN :
        \A activeCubeFaceIndex \in FacesOf(renderTarget, Undefined) :
            /\ reading.pending = 0
            /\ CurrentTargetBound(reading)
            /\ reading.currentRenderTarget \in {NullHandle, 1}
            /\ IsFramebuffer(ReadFramebuffer(renderTarget, activeCubeFaceIndex))
            => CurrentTargetBound(readRenderTargetPixels(reading, renderTarget,
                                                         activeCubeFaceIndex, readable))

\* readRenderTargetPixels has returned with the single-sample framebuffer of
\* the multisampled current render target bound.
MultisampledTargetUnbound ==
    /\ reading.pending = 0
    /\ ~reading.threw
    /\ isMultisampled(reading.currentRenderTarget)
    /\ reading.framebuffer = webglFramebuffer(reading.currentRenderTarget)

----------------------------------------------------------------------------
(***************************************************************************)
(* Binding states (WebGLBindingStates).                                    *)
(*                                                                         *)
(* binding is the record of the state these read and write: the table      *)
(* bindingStates, the driver's vertex array objects and the one it has     *)
(* bound, currentState, forceUpdate, the binding states whose attributes   *)
(* are saved, and whether gl.bindVertexArray was handed a deleted object.  *)
(* A binding state is named by the vertex array object made for it, the    *)
(* default state by NullHandle, which is also the null vertex array        *)
(* object. The table maps <<geometry.id, program.id, wireframe>> to the    *)
(* state, NullHandle where it has none. The attributes of a geometry do    *)
(* not change and there is no index.                                       *)
(***************************************************************************)
BoundGeometries == 1..NumBoundGeometries

BoundPrograms == 1..NumBoundPrograms

BindingKeys == BoundGeometries \X BoundPrograms \X BOOLEAN

VertexArrays == 1..MaxVertexArrays

BindingConstructed ==
    [bindingStates |-> [k \in BindingKeys |-> NullHandle],
     vertexArrays |-> [vao \in VertexArrays |-> "none"],
     count |-> 0,
     bound |-> NullHandle,
     currentState |-> NullHandle,
     forceUpdate |-> FALSE,
     saved |-> {},
     configured |-> {},
     invalid |-> FALSE]

\* gl.bindVertexArray( vao ): INVALID_OPERATION for a deleted object.
bindVertexArrayObject(b, vao) ==
    IF vao # NullHandle /\ b.vertexArrays[vao] # "live"
    THEN [b EXCEPT !.invalid = TRUE]
    ELSE [b EXCEPT !.bound = vao]

\* gl.deleteVertexArray( vao ): the binding of the object bound reverts to
\* the null object.
deleteVertexArrayObject(b, vao) ==
    [b EXCEPT !.vertexArrays[vao] = "deleted",
              !.bound = IF @ = vao THEN NullHandle ELSE @]

\* getBindingState( geometry, program, material ): r.b is what it leaves,
\* r.state the state it returns.
getBindingState(b, k) ==
    IF b.bindingStates[k] # NullHandle
    THEN [b |-> b, state |-> b.bindingStates[k]]
    ELSE LET vao == b.count + 1 IN
         [b |-> [b EXCEPT !.count = vao, !.vertexArrays[vao] = "live",
                          !.bindingStates[k] = vao],
          state |-> vao]

\* setup( object, material, program, geometry, index ): needsUpdate is true
\* for a state whose attributes were not saved; setupVertexAttributes
\* configures the vertex array object the driver has bound.
setup(b, k) ==
    LET r == getBindingState(b, k)
        b1 == IF r.b.currentState # r.state
              THEN bindVertexArrayObject([r.b EXCEPT !.currentState = r.state], r.state)
              ELSE r.b
        updateBuffers == b1.currentState \notin b1.saved
        b2 == IF updateBuffers THEN [b1 EXCEPT !.saved = @ \cup {b1.currentState}] ELSE b1
    IN IF updateBuffers \/ b2.forceUpdate
       THEN [b2 EXCEPT !.forceUpdate = FALSE, !.configured = @ \cup {b2.bound}]
       ELSE b2

\* The states of the keys are deleted, one after the other.
RECURSIVE ReleaseStates(_, _)
ReleaseStates(b, keys) ==
    IF keys = {} THEN b
    ELSE LET k == CHOOSE key \in keys : TRUE
             b1 == deleteVertexArrayObject(b, b.bindingStates[k])
         IN ReleaseStates([b1 EXCEPT !.bindingStates[k] = NullHandle], keys \ {k})

\* releaseStatesOfGeometry that deletes the objects and keeps the table.
releaseStatesOfGeometryKeeping(b, geometry) ==
    LET keys == {k \in BindingKeys : k[1] = geometry /\ b.bindingStates[k] # NullHandle}
    IN [ReleaseStates(b, keys) EXCEPT !.bindingStates = b.bindingStates]

\* releaseStatesOfGeometry( geometry )
releaseStatesOfGeometry(b, geometry) ==
    ReleaseStates(b, {k \in BindingKeys : k[1] = geometry /\ b.bindingStates[k] # NullHandle})

\* releaseStatesOfProgram( program )
releaseStatesOfProgram(b, program) ==
    ReleaseStates(b, {k \in BindingKeys : k[2] = program /\ b.bindingStates[k] # NullHandle})

\* reset()
bindingReset(b) ==
    LET b1 == [b EXCEPT !.forceUpdate = TRUE] IN
    IF b1.currentState = NullHandle THEN b1
    ELSE bindVertexArrayObject([b1 EXCEPT !.currentState = NullHandle], NullHandle)

\* A draw of a geometry with a program, while the driver has a vertex array
\* object to give.
Setup(k) ==
    /\ binding.bindingStates[k] = NullHandle => binding.count < MaxVertexArrays
    /\ binding' = setup(binding, k)
    /\ UNCHANGED notBindVars

\* geometry.dispose()
ReleaseStatesOfGeometry(geometry) ==
    /\ binding' = releaseStatesOfGeometry(binding, geometry)
    /\ UNCHANGED notBindVars

\* program.destroy()
ReleaseStatesOfProgram(program) ==
    /\ binding' = releaseStatesOfProgram(binding, program)
    /\ UNCHANGED notBindVars

\* renderer.resetState()
BindingReset ==
    /\ binding' = bindingReset(binding)
    /\ UNCHANGED notBindVars

BindIdle == binding = BindingConstructed

InitBinding == binding = BindingConstructed

NextBinding ==
    \/ \E k \in BindingKeys : Setup(k)
    \/ \E geometry \in BoundGeometries : ReleaseStatesOfGeometry(geometry)
    \/ \E program \in BoundPrograms : ReleaseStatesOfProgram(program)
    \/ BindingReset

\* The vertex array object of the state is not deleted.
LiveState(b, state) == state = NullHandle \/ b.vertexArrays[state] = "live"

\* C39, as stated: no binding state whose vertex array object was deleted is
\* in the table or is the current binding state.
C39_NoDeletedStateReachable ==
    /\ \A k \in BindingKeys : LiveState(binding, binding.bindingStates[k])
    /\ LiveState(binding, binding.currentState)

\* C39, as the code has it: no binding state whose vertex array object was
\* deleted is in the table; currentState may be such a state, while the
\* driver has the null object bound, until the next setup or reset; after a
\* setup the current state is the one of the table, its object is live and
\* is the one bound and configured, and gl.bindVertexArray is never handed a
\* deleted object.
C39_DeletedVertexArrayNeverBound ==
    /\ \A k \in BindingKeys : LiveState(binding, binding.bindingStates[k])
    /\ ~binding.invalid
    /\ LiveState(binding, binding.bound)
    /\ \A vao \in binding.configured : vao # NullHandle
    /\ IF LiveState(binding, binding.currentState)
       THEN binding.bound = binding.currentState
       ELSE binding.bound = NullHandle
    /\ \A k \in BindingKeys :
          (binding.bindingStates[k] # NullHandle \/ binding.count < MaxVertexArrays) =>
              LET b == setup(binding, k) IN
              /\ b.currentState = b.bindingStates[k]
              /\ b.vertexArrays[b.currentState] = "live"
              /\ b.bound = b.currentState
              /\ ~b.invalid
              /\ b.configured \subseteq binding.configured \cup {b.currentState}
    /\ LET b == bindingReset(binding) IN
       b.currentState = NullHandle /\ b.bound = NullHandle /\ ~b.invalid

\* The current binding state was released: its vertex array object is
\* deleted, and the geometry it was made for is drawn again with a new one.
C39_Witness ==
    /\ binding.currentState # NullHandle
    /\ binding.vertexArrays[binding.currentState] = "deleted"
    /\ binding.currentState \in binding.configured
    /\ \E k \in BindingKeys :
          /\ binding.bindingStates[k] = NullHandle
          /\ binding.count < MaxVertexArrays
          /\ setup(binding, k).currentState = binding.count + 1

----------------------------------------------------------------------------
(***************************************************************************)
(* Specifications.                                                         *)
(***************************************************************************)
\* The sort of a specification that does not exercise it.
SortIdle == sortInput = <<>> /\ sortOutput = <<>> /\ sortKind = "none"

\* The components that follow the caches, in a specification of a cache.
\* The components that follow the draws, in a specification of another.
LastIdle == ClearIdle /\ ReadIdle /\ BindIdle

NewerIdle == CompileIdle /\ LifeIdle /\ LastIdle

LaterIdle == InitRender /\ SortIdle /\ InitView /\ DrawIdle /\ NewerIdle

Init == InitPrograms /\ StateIdle /\ TexturesIdle /\ AttributesIdle /\ LaterIdle

SpecPrograms == Init /\ [][NextPrograms]_vars

InitS == InitPrograms /\ InitState /\ TexturesIdle /\ AttributesIdle /\ LaterIdle

SpecState == InitS /\ [][NextState]_vars

InitT == InitPrograms /\ StateIdle /\ TexturesIdle /\ AttributesIdle /\ LaterIdle

SpecTextures == InitT /\ [][NextTextures]_vars

\* Each texture is constructed with an image of its own.
InitU ==
    /\ InitPrograms /\ StateIdle /\ InitTextures /\ AttributesIdle /\ LaterIdle
    /\ \A t \in Textures : textures[t].source = ((t - 1) % NumSources) + 1

SpecSources == InitU /\ [][NextSources]_vars

SpecImages == InitT /\ [][NextImages]_vars

InitA == InitPrograms /\ StateIdle /\ TexturesIdle /\ InitAttributes /\ LaterIdle

SpecAttributes == InitA /\ [][NextAttributes]_vars

\* The caches of a specification that exercises none of them.
CachesIdle == InitPrograms /\ StateIdle /\ TexturesIdle /\ AttributesIdle

InitR == CachesIdle /\ InitRender /\ SortIdle /\ InitView /\ DrawIdle /\ NewerIdle

SpecRender == InitR /\ [][NextRender]_vars

SpecAbort == InitR /\ [][NextAbort]_vars

SpecCallback == InitR /\ [][NextCallback]_vars

InitSo == CachesIdle /\ InitRender /\ InitSort /\ InitView /\ DrawIdle /\ NewerIdle

SpecSort == InitSo /\ [][NextSort]_vars

InitV == CachesIdle /\ InitRender /\ SortIdle /\ InitView /\ DrawIdle /\ NewerIdle

SpecView == InitV /\ [][NextView]_vars

InitD == CachesIdle /\ InitRender /\ SortIdle /\ InitView /\ InitDrawing /\ NewerIdle

SpecDraw == InitD /\ [][NextDrawing]_vars

InitSh == CachesIdle /\ InitRender /\ SortIdle /\ InitView /\ InitShaders /\ NewerIdle

SpecShaders == InitSh /\ [][NextShaders]_vars

InitC == CachesIdle /\ InitRender /\ SortIdle /\ InitView /\ DrawIdle /\ InitCompiling /\ LifeIdle /\ LastIdle

SpecCompile == InitC /\ [][NextCompiling]_vars

SpecResolving == InitC /\ [][NextResolving]_vars /\ PollingFairness

SpecPolling == InitC /\ [][NextPolling]_vars /\ PollingFairness

InitL == CachesIdle /\ InitRender /\ SortIdle /\ InitView /\ DrawIdle /\ CompileIdle /\ InitLife /\ LastIdle

SpecLife == InitL /\ [][NextLife]_vars


OlderIdle == CachesIdle /\ InitRender /\ SortIdle /\ InitView /\ DrawIdle /\ CompileIdle /\ LifeIdle

InitCl == OlderIdle /\ InitClearing /\ ReadIdle /\ BindIdle

SpecClear == InitCl /\ [][NextClearing]_vars

InitRd == OlderIdle /\ ClearIdle /\ InitReading /\ BindIdle

SpecRead == InitRd /\ [][NextReading]_vars

InitB == OlderIdle /\ ClearIdle /\ ReadIdle /\ InitBinding

SpecBinding == InitB /\ [][NextBinding]_vars

====
